---- MODULE Spec2Model ----
(***************************************************************************)
(* A model of the physics advancement pipeline of OpenSurgSim: the         *)
(* push-results step, the narrow-phase contact calculators and the         *)
(* constraint implementation factory.                                      *)
(*                                                                         *)
(* Lengths are modelled on an integer grid of half units (1.0 is 2 grid    *)
(* units); vectors are sequences of integers, and a vector divided by a    *)
(* scalar is kept as an exact fraction.                                    *)
(***************************************************************************)
EXTENDS Integers, Sequences, FiniteSets, TLC

VARIABLES
    \* ---- PushResults (PhysicsManagerState as seen by PushResults::doUpdate)
    mlcpX,                  \* MlcpSolution::x, the solved multipliers (lambda)
    CHt,                    \* MlcpProblem::CHt, one row per global DoF
    dofCorrection,          \* MlcpSolution::dofCorrection
    representations,        \* PhysicsManagerState::getRepresentations()
    representationsMapping, \* representation -> first column index (or -1)
    applied,                \* the applyDofCorrection calls made, in order
    pushPc                  \* "ready", "done" (returned) or "asserted"

pushVars == <<mlcpX, CHt, dofCorrection, representations,
              representationsMapping, applied, pushPc>>

VARIABLES
    \* ---- Narrow phase (one ContactCalculation::calculateContact call)
    calc,       \* the calculator the pair is handed to
    pair,       \* CollisionPair: first, second, contacts
    calcPc      \* "ready" or "done"

contactVars == <<calc, pair, calcPc>>

VARIABLES
    \* ---- ConstraintImplementationFactory
    m_implementations,  \* [representation type][constraint type] -> instance
    lastCall            \* the last call made on the factory and its outcome

factoryVars == <<m_implementations, lastCall>>

VARIABLES
    \* ---- One bilateral 3D constraint built into an MlcpPhysicsProblem
    mlcp,        \* MlcpPhysicsProblem: H, b, constraintTypes
    buildInput,  \* dt, the two local positions and the constraint row offset
    buildPc      \* "ready", "positive" (first build done) or "done"

buildVars == <<mlcp, buildInput, buildPc>>

VARIABLES
    \* ---- One MassSpringRepresentation driven through the ticks of the loop
    ms,         \* the representation: flags, parameters, m_x, m_v, m_f, ...
    msDt,       \* the dt its handlers are called with
    msPc,       \* the handler called last: "ready", "before", "updated", "corrected"
    msSteps,    \* integration steps made (update calls while active)
    msDrift     \* consecutive update calls that found no force on moving nodes

massSpringVars == <<ms, msDt, msPc, msSteps, msDrift>>

VARIABLES
    \* ---- One OdeSolver advancing the state of one OdeEquation
    odeSolver,    \* the solver: its class, m_initialized, m_compliance
    odeEquation,  \* the equation: the diagonal of M, and what its force is made of
    odeDt,        \* the dt of every solve call of the run
    odeCurrent,   \* currentState of the last solve call
    odeNew,       \* *newState, the state the solver writes
    odeSolves,    \* solve calls made
    odeDrift      \* consecutive solve calls that found no force on a moving state

odeVars == <<odeSolver, odeEquation, odeDt, odeCurrent, odeNew, odeSolves, odeDrift>>

VARIABLES
    \* ---- One Barrier and the threads that synchronise on it
    barrier,    \* m_threshold, m_count, m_generation, m_success, m_successResult
    threads,    \* per thread: what it is, where it is, its flags
    called,     \* the wait calls made: round, thread, success argument
    returned    \* the wait calls that returned: round, thread, value

threadVars == <<barrier, threads, called, returned>>

VARIABLES
    \* ---- One NovintScaffold, its callers and the haptic callback
    scaffold, apps, haptic, inputData, hdal, novintFailure, calls, lastReturn

novintVars == <<scaffold, apps, haptic, inputData, hdal, novintFailure, calls, lastReturn>>

VARIABLES
    \* ---- Components of a scene element and the last call made on one
    components, componentCall

componentVars == <<components, componentCall>>

VARIABLES
    \* ---- An Accessible: its functors, the properties its setters write, the last call
    m_functors, properties, accessCall

accessibleVars == <<m_functors, properties, accessCall>>

VARIABLES
    \* ---- AddSphereFromInputBehavior: its statics, the scene, button1 as last read, update calls made
    previouslyPressed, m_numElements, scene, button1, sphereUpdates

sphereVars == <<previouslyPressed, m_numElements, scene, button1, sphereUpdates>>

vars == <<pushVars, contactVars, factoryVars, buildVars, massSpringVars, odeVars,
          threadVars,
          novintVars,
          componentVars,
          accessibleVars,
          sphereVars>>

\* What an operation of one part leaves alone: the variables of the others.
exceptPush == <<contactVars, factoryVars, buildVars, massSpringVars, odeVars, threadVars,
    novintVars,
    componentVars,
    accessibleVars,
    sphereVars>>
exceptContact == <<pushVars, factoryVars, buildVars, massSpringVars, odeVars, threadVars,
    novintVars,
    componentVars,
    accessibleVars,
    sphereVars>>
exceptFactory == <<pushVars, contactVars, buildVars, massSpringVars, odeVars, threadVars,
    novintVars,
    componentVars,
    accessibleVars,
    sphereVars>>
exceptBuild == <<pushVars, contactVars, factoryVars, massSpringVars, odeVars, threadVars,
    novintVars,
    componentVars,
    accessibleVars,
    sphereVars>>
exceptMassSpring == <<pushVars, contactVars, factoryVars, buildVars, odeVars, threadVars,
    novintVars,
    componentVars,
    accessibleVars,
    sphereVars>>
exceptOde == <<pushVars, contactVars, factoryVars, buildVars, massSpringVars, threadVars,
    novintVars,
    componentVars,
    accessibleVars,
    sphereVars>>
exceptThreads == <<pushVars, contactVars, factoryVars, buildVars, massSpringVars, odeVars,
    novintVars,
    componentVars,
    accessibleVars,
    sphereVars>>
exceptNovint == <<pushVars, contactVars, factoryVars, buildVars, massSpringVars, odeVars, threadVars,
    componentVars,
    accessibleVars,
    sphereVars>>
exceptComponent == <<pushVars, contactVars, factoryVars, buildVars, massSpringVars, odeVars, threadVars, novintVars,
    accessibleVars,
    sphereVars>>
exceptAccessible == <<pushVars, contactVars, factoryVars, buildVars, massSpringVars, odeVars, threadVars, novintVars, componentVars,
    sphereVars>>
exceptSphere == <<pushVars, contactVars, factoryVars, buildVars, massSpringVars, odeVars, threadVars, novintVars, componentVars, accessibleVars>>

\* ------------------------------------------------------------------------
\* Bounds
\* ------------------------------------------------------------------------
MaxReps == 2          \* representations in one physics state
MaxDof == 2           \* DoF of one representation
MaxConstraints == 2   \* length of the MLCP solution x
MaxSeed == 2          \* CHt matrices tried per shape
MaxCoord == 3         \* centre coordinates range over -MaxCoord..MaxCoord
MaxRadius == 2        \* sphere radii range over 1..MaxRadius
MaxInstances == 2     \* instances of one implementation class made by callers

\* ------------------------------------------------------------------------
\* Vector helpers
\* ------------------------------------------------------------------------
RECURSIVE SumTo(_, _)
SumTo(f, n) == IF n = 0 THEN 0 ELSE f[n] + SumTo(f, n - 1)

\* Eigen: matrix * vector; a matrix is a sequence of rows.
MatVec(m, v) == [i \in 1..Len(m) |-> SumTo([j \in 1..Len(v) |-> m[i][j] * v[j]], Len(v))]

BlockFromStart(v, index, n) == [k \in 1..n |-> v[k]]

\* Eigen: v.block(index, 0, n, 1), index counted from 0.
Block(v, index, n) == [k \in 1..n |-> v[index + k]]

VecAdd(a, b) == [k \in 1..Len(a) |-> a[k] + b[k]]

\* ------------------------------------------------------------------------
\* Representation::applyDofCorrection
\* ------------------------------------------------------------------------
\* MassSpringRepresentation::applyDofCorrection has an empty body.
MassSpringApplyDofCorrection(r, block) == r

\* RigidRepresentation::applyDofCorrection folds the correction into the
\* velocity DoF.
RigidApplyDofCorrection(r, block) == [r EXCEPT !.dof = VecAdd(r.dof, block)]

ApplyDofCorrection(r, block) ==
    IF r.kind = "MassSpring" THEN MassSpringApplyDofCorrection(r, block)
    ELSE RigidApplyDofCorrection(r, block)

\* ------------------------------------------------------------------------
\* PushResults::doUpdate
\* ------------------------------------------------------------------------
\* The 2nd step: the loop over the representations, from position i on.
RECURSIVE PushLoop(_, _, _, _, _)
PushLoop(i, reps, log, corr, map) ==
    IF i > Len(reps)
    THEN [reps |-> reps, applied |-> log, asserted |-> FALSE]
    ELSE LET r == reps[i]
             index == map[r.id]
         IN IF index < 0
            THEN [reps |-> reps, applied |-> log, asserted |-> TRUE]
            ELSE LET block == Block(corr, index, r.numDof)
                 IN PushLoop(i + 1,
                             [reps EXCEPT ![i] = ApplyDofCorrection(r, block)],
                             Append(log, [rep |-> r.id, index |-> index, block |-> block]),
                             corr, map)

LambdaIsEmptyNever(lambda) == FALSE

\* lambda.size() == 0
LambdaIsEmpty(lambda) == Len(lambda) = 0

DoUpdate ==
    /\ pushPc = "ready"
    /\ IF LambdaIsEmpty(mlcpX)
       THEN /\ pushPc' = "done"
            /\ UNCHANGED <<dofCorrection, representations, applied>>
       ELSE LET corr == MatVec(CHt, mlcpX)
                out == PushLoop(1, representations, applied, corr, representationsMapping)
            IN /\ dofCorrection' = corr
               /\ representations' = out.reps
               /\ applied' = out.applied
               /\ pushPc' = IF out.asserted THEN "asserted" ELSE "done"
    /\ UNCHANGED <<mlcpX, CHt, representationsMapping>>
    /\ UNCHANGED exceptPush

\* ------------------------------------------------------------------------
\* The physics states PushResults is handed: the representations after the
\* free-motion integration, the mapping built for this tick, the problem
\* and its solution.
\* ------------------------------------------------------------------------
RepKinds == {"MassSpring", "Rigid"}

RECURSIVE SumDof(_, _)
SumDof(reps, n) == IF n = 0 THEN 0 ELSE reps[n].numDof + SumDof(reps, n - 1)

\* Representation lists: ids 1..n in list order.
RepLists ==
    UNION {
        { [i \in 1..n |-> [id |-> i, kind |-> kinds[i], numDof |-> dofs[i],
                           dof |-> [k \in 1..dofs[i] |-> vals[i]]]] :
            kinds \in [1..n -> RepKinds],
            dofs \in [1..n -> 1..MaxDof],
            vals \in [1..n -> {0, 3}] } :
        n \in 1..MaxReps }

Orders(n) == { p \in [1..n -> 1..n] : \A i, j \in 1..n : p[i] = p[j] => i = j }

\* The mapping lays the representations out contiguously in the order
\* order[1], order[2], ...; Offset is the index of representation id.
RECURSIVE OffsetOf(_, _, _)
OffsetOf(reps, order, pos) ==
    IF pos = 1 THEN 0
    ELSE reps[order[pos - 1]].numDof + OffsetOf(reps, order, pos - 1)

MappingFor(reps, order) ==
    [id \in 1..Len(reps) |->
        OffsetOf(reps, order, CHOOSE pos \in 1..Len(reps) : order[pos] = id)]

CHtEntry(seed, i, j) == ((seed + 2 * i + j) % 3) - 1

CHtFor(seed, rows, cols) == [i \in 1..rows |-> [j \in 1..cols |-> CHtEntry(seed, i, j)]]

Lambdas == UNION { [1..n -> {1, 2}] : n \in 0..MaxConstraints }

InitPush ==
    /\ representations \in RepLists
    /\ \E order \in Orders(Len(representations)) :
           representationsMapping = MappingFor(representations, order)
    /\ mlcpX \in Lambdas
    /\ \E seed \in 1..MaxSeed :
           CHt = CHtFor(seed, SumDof(representations, Len(representations)), Len(mlcpX))
    /\ \E stale \in {0, 7} :
           dofCorrection = [k \in 1..SumDof(representations, Len(representations)) |-> stale]
    /\ applied = <<>>
    /\ pushPc = "ready"

\* ------------------------------------------------------------------------
\* Vectors, rotations and exact fractions
\* ------------------------------------------------------------------------
Dot(a, b) == a[1] * b[1] + a[2] * b[2] + a[3] * b[3]
Sub(a, b) == <<a[1] - b[1], a[2] - b[2], a[3] - b[3]>>
Add3(a, b) == <<a[1] + b[1], a[2] + b[2], a[3] + b[3]>>
Scale(a, k) == <<a[1] * k, a[2] * k, a[3] * k>>
SquaredNorm(a) == Dot(a, a)
Abs(n) == IF n < 0 THEN -n ELSE n
Min(a, b) == IF a < b THEN a ELSE b
Max(a, b) == IF a > b THEN a ELSE b

IsSquare(n) == \E r \in 0..n : r * r = n
ISqrt(n) == CHOOSE r \in 0..n : r * r = n

\* Rotation matrices (rows); the linear part of a pose.
Identity == <<<<1, 0, 0>>, <<0, 1, 0>>, <<0, 0, 1>>>>
\* makeRotationQuaternion(M_PI_2, Vector3d(1, 0, 0))
RotX90 == <<<<1, 0, 0>>, <<0, 0, -1>>, <<0, 1, 0>>>>
\* a quarter turn about the z axis
RotZ90 == <<<<0, -1, 0>>, <<1, 0, 0>>, <<0, 0, 1>>>>

MatVec3(m, v) == <<Dot(m[1], v), Dot(m[2], v), Dot(m[3], v)>>
Transpose(m) == [i \in 1..3 |-> [j \in 1..3 |-> m[j][i]]]

\* pose * point and pose.inverse() * point
PoseApply(pose, p) == Add3(MatVec3(pose.linear, p), pose.translation)
PoseInverseApply(pose, p) == MatVec3(Transpose(pose.linear), Sub(p, pose.translation))

\* num / den; den = 0 is the result of 0 / 0, a vector of NaN.
Q(num, den) == [num |-> num, den |-> den]
NaNVector == Q(<<0, 0, 0>>, 0)
IsNaN(q) == q.den = 0
QEq(a, b) == /\ IsNaN(a) = IsNaN(b)
             /\ Scale(a.num, b.den) = Scale(b.num, a.den)
\* c + q * k
QAddScaled(c, q, k) ==
    IF IsNaN(q) THEN NaNVector ELSE Q(Add3(Scale(c, q.den), Scale(q.num, k)), q.den)
QRotate(m, q) == Q(MatVec3(m, q.num), q.den)
QIsUnit(q) == ~IsNaN(q) /\ SquaredNorm(q.num) = q.den * q.den

\* Eigen's v.normalize(): v /= v.norm().  On the zero vector it is 0 / 0 in
\* every component with the Eigen releases that divide unconditionally, and
\* leaves the vector zero with the releases that test the norm first.
NormalizeOutcomes(v) ==
    IF SquaredNorm(v) = 0 THEN {NaNVector, Q(v, 1)}
    ELSE {Q(v, ISqrt(SquaredNorm(v)))}

\* ------------------------------------------------------------------------
\* CollisionPair
\* ------------------------------------------------------------------------
Location(q) == [hasValue |-> TRUE, value |-> q]

\* CollisionPair::addContact(depth, normal, penetrationPoints)
AddContact(p, depth, normal, points) ==
    [p EXCEPT !.contacts =
        Append(@, [depth |-> depth, normal |-> normal, penetrationPoints |-> points])]

\* CollisionPair::swapRepresentations
SwapRepresentations(p) ==
    [p EXCEPT !.first = p.second, !.second = p.first, !.isSwapped = ~p.isSwapped]

\* ------------------------------------------------------------------------
\* ContactCalculation
\* ------------------------------------------------------------------------
\* getShapeTypes() of the calculators
GetShapeTypes(c) ==
    CASE c = "SphereSphere" -> <<"SPHERE", "SPHERE">>
      [] c = "SpherePlane" -> <<"SPHERE", "PLANE">>
      [] c = "BoxSphere" -> <<"BOX", "SPHERE">>

NeedsSwapSameTypes(c, firstShapeType, secondShapeType) ==
    /\ firstShapeType = GetShapeTypes(c)[2]
    /\ secondShapeType = GetShapeTypes(c)[1]

NeedsSwap(c, firstShapeType, secondShapeType) ==
    /\ firstShapeType # secondShapeType
    /\ firstShapeType = GetShapeTypes(c)[2]
    /\ secondShapeType = GetShapeTypes(c)[1]

\* The first half of calculateContact: the pair as doCalculateContact gets it.
Ordered(c, p) ==
    IF NeedsSwap(c, p.first.shapeType, p.second.shapeType)
    THEN SwapRepresentations(p) ELSE p

\* ------------------------------------------------------------------------
\* SphereSphereDcdContact::doCalculateContact
\* ------------------------------------------------------------------------
\* The pairs the routine can leave behind (one per outcome of normalize()).
SphereSphereDoCalculateContact(p) ==
    LET firstRadius == p.first.shape.radius
        secondRadius == p.second.shape.radius
        firstCenter == p.first.pose.translation
        secondCenter == p.second.pose.translation
        normal == Sub(firstCenter, secondCenter)
        dist == ISqrt(SquaredNorm(normal))
        maxDist == firstRadius + secondRadius
    IN IF dist < maxDist
       THEN { AddContact(p, maxDist - dist, n,
                         <<Location(QAddScaled(firstCenter, n, -firstRadius)),
                           Location(QAddScaled(secondCenter, n, secondRadius))>>) :
                n \in NormalizeOutcomes(normal) }
       ELSE {p}

\* ------------------------------------------------------------------------
\* BoxSphereDcdContact::doCalculateContact
\* ------------------------------------------------------------------------
\* a > SquaredDistanceEpsilon and a > -DistanceEpsilon for a on the grid: the
\* epsilons are positive and far smaller than one grid unit.
AboveEpsilon(a) == a > 0
AboveMinusEpsilon(a) == a >= 0

\* SurgSim::Math::indexOfMinimum: the index (1, 2, 3 for x, y, z) of the
\* smallest value, the first one on a tie.
IndexOfMinimum(a0, a1, a2) ==
    IF a0 <= a1 /\ a0 <= a2 THEN 1
    ELSE IF a1 <= a2 THEN 2 ELSE 3

\* Box half size: (sizeX * 0.5, sizeY * 0.5, sizeZ * 0.5); sizes are even.
BoxHalfSize(size) == <<size[1] \div 2, size[2] \div 2, size[3] \div 2>>

\* The closest point to c in the box, in box coordinates.
ClosestPoint(boxSize, c) ==
    [k \in 1..3 |-> Max(-boxSize[k], Min(boxSize[k], c[k]))]

\* The sign given to the face normal when the sphere centre is in the box.
FaceDirection(coordinate) == IF AboveMinusEpsilon(coordinate) THEN 1 ELSE -1

\* The face normal chosen when the sphere centre is in the box.
InsideNormal(id, direction) == [k \in 1..3 |-> IF k = id THEN direction ELSE 0]

InsideDistanceUnsigned(distanceFromFace) == Abs(distanceFromFace)

\* distance when the sphere centre is in the box: minus the face distance.
InsideDistance(distanceFromFace) == -Abs(distanceFromFace)

BoxSphereDoCalculateContact(p) ==
    LET representationBox == p.first
        representationSphere == p.second
        radius == representationSphere.shape.radius
        sphereCenter == representationSphere.pose.translation
        boxLocalSphereCenter == PoseInverseApply(representationBox.pose, sphereCenter)
        boxSize == BoxHalfSize(representationBox.shape.size)
        closestPoint == ClosestPoint(boxSize, boxLocalSphereCenter)
        normal == Sub(closestPoint, boxLocalSphereCenter)
        distanceSquared == SquaredNorm(normal)
    IN IF AboveEpsilon(distanceSquared - radius * radius)
       THEN {p}
       ELSE LET inside == ~AboveEpsilon(distanceSquared)
                distancesFromFaces == [k \in 1..3 |-> boxSize[k] - Abs(closestPoint[k])]
                minimumDistanceId == IndexOfMinimum(distancesFromFaces[1],
                                                    distancesFromFaces[2],
                                                    distancesFromFaces[3])
                direction == FaceDirection(closestPoint[minimumDistanceId])
                localNormal ==
                    IF inside THEN Q(InsideNormal(minimumDistanceId, direction), 1)
                    ELSE Q(normal, ISqrt(distanceSquared))
                facePoint ==
                    IF inside
                    THEN [closestPoint EXCEPT
                            ![minimumDistanceId] = boxSize[minimumDistanceId] * direction]
                    ELSE closestPoint
                distance ==
                    IF inside THEN InsideDistance(distancesFromFaces[minimumDistanceId])
                    ELSE ISqrt(distanceSquared)
                globalNormal == QRotate(representationBox.pose.linear, localNormal)
            IN { AddContact(p, Abs(distance - radius), globalNormal,
                   <<Location(Q(PoseApply(representationBox.pose, facePoint), 1)),
                     Location(QAddScaled(sphereCenter, globalNormal, radius))>>) }

\* ------------------------------------------------------------------------
\* SpherePlaneDcdContact::doCalculateContact
\* ------------------------------------------------------------------------
\* PlaneShape: the plane y = 0 with normal (0, 1, 0) in its own coordinates.
PlaneNormal == <<0, 1, 0>>

SpherePlaneDoCalculateContact(p) ==
    LET radius == p.first.shape.radius
        sphereCenter == p.first.pose.translation
        planeNormalGlobal == MatVec3(p.second.pose.linear, PlaneNormal)
        dist == Dot(planeNormalGlobal, Sub(sphereCenter, p.second.pose.translation))
    IN IF dist < radius
       THEN LET depth == radius - dist
                normal == Q(planeNormalGlobal, 1)
            IN { AddContact(p, depth, normal,
                   <<Location(QAddScaled(sphereCenter, normal, -radius)),
                     Location(QAddScaled(sphereCenter, normal, -(radius - depth)))>>) }
       ELSE {p}

\* ------------------------------------------------------------------------
\* doSpherePlaneTest and the cases of its unit test
\* ------------------------------------------------------------------------
ExpectedSpherePenetration(sphereTrans, expectedNorm, radius) ==
    Sub(sphereTrans, Scale(expectedNorm, radius))

ExpectedPlanePenetrationAbove(sphereTrans, expectedNorm, radius, expectedDepth) ==
    Add3(sphereTrans, Scale(expectedNorm, radius - expectedDepth))

ExpectedPlanePenetration(sphereTrans, expectedNorm, radius, expectedDepth) ==
    Sub(sphereTrans, Scale(expectedNorm, radius - expectedDepth))

IntersectionFrontPlaneAtOrigin ==
    [radius |-> 2, sphereTrans |-> <<0, 2, 0>>,
     planeQuat |-> Identity, planeTrans |-> <<0, 0, 0>>,
     expectedIntersect |-> TRUE, expectedDepth |-> 1, expectedNorm |-> <<0, 1, 0>>]

\* "Intersection front, no transformation": sphere of radius 1.0 at
\* (0, 1, 0), plane at (0, 0.5, 0), depth 0.5, normal (0, 1, 0).
IntersectionFront ==
    [radius |-> 2, sphereTrans |-> <<0, 2, 0>>,
     planeQuat |-> Identity, planeTrans |-> <<0, 1, 0>>,
     expectedIntersect |-> TRUE, expectedDepth |-> 1, expectedNorm |-> <<0, 1, 0>>]

\* ------------------------------------------------------------------------
\* ContactCalculation::calculateContact, one action per calculator
\* ------------------------------------------------------------------------
SphereSphereCalculateContact ==
    /\ calcPc = "ready" /\ calc = "SphereSphere"
    /\ pair' \in SphereSphereDoCalculateContact(Ordered(calc, pair))
    /\ calcPc' = "done"
    /\ UNCHANGED calc
    /\ UNCHANGED exceptContact

BoxSphereCalculateContact ==
    /\ calcPc = "ready" /\ calc = "BoxSphere"
    /\ pair' \in BoxSphereDoCalculateContact(Ordered(calc, pair))
    /\ calcPc' = "done"
    /\ UNCHANGED calc
    /\ UNCHANGED exceptContact

SpherePlaneCalculateContact ==
    /\ calcPc = "ready" /\ calc = "SpherePlane"
    /\ pair' \in SpherePlaneDoCalculateContact(Ordered(calc, pair))
    /\ calcPc' = "done"
    /\ UNCHANGED calc
    /\ UNCHANGED exceptContact

\* ------------------------------------------------------------------------
\* The pairs a calculator is handed: two representations whose shape types
\* are the calculator's, in either order.
\* ------------------------------------------------------------------------
Coords == (-MaxCoord)..MaxCoord
Points == { <<x, y, z>> : x \in Coords, y \in Coords, z \in Coords }
Radii == 1..MaxRadius
Origin == <<0, 0, 0>>

Pose(translation, linear) == [translation |-> translation, linear |-> linear]

SphereRep(c, r) ==
    [shapeType |-> "SPHERE", shape |-> [radius |-> r, size |-> Origin],
     pose |-> Pose(c, Identity)]
BoxRep(size, pose) ==
    [shapeType |-> "BOX", shape |-> [radius |-> 0, size |-> size], pose |-> pose]
PlaneRep(pose) ==
    [shapeType |-> "PLANE", shape |-> [radius |-> 0, size |-> Origin], pose |-> pose]

AnchorPoints == {Origin, <<1, 0, -1>>}
BoxSizes == {<<2, 2, 2>>, <<4, 2, 2>>, <<2, 4, 6>>}
BoxPoses == { Pose(t, m) : t \in AnchorPoints, m \in {Identity, RotX90, RotZ90} }
PlanePoses == { Pose(t, m) : t \in {Origin, <<0, 1, 0>>}, m \in {Identity, RotX90} }

\* The distance the routine takes a square root of is on the grid.
SphereSphereOnGrid(a, b) ==
    IsSquare(SquaredNorm(Sub(a.pose.translation, b.pose.translation)))
BoxSphereOnGrid(box, sph) ==
    LET local == PoseInverseApply(box.pose, sph.pose.translation)
    IN IsSquare(SquaredNorm(Sub(ClosestPoint(BoxHalfSize(box.shape.size), local), local)))

SphereSpherePairs ==
    { <<SphereRep(a, r1), SphereRep(b, r2)>> :
        a \in AnchorPoints, b \in Points, r1 \in Radii, r2 \in Radii }
BoxSpherePairs ==
    { <<BoxRep(size, pose), SphereRep(c, r)>> :
        size \in BoxSizes, pose \in BoxPoses, c \in Points, r \in Radii }
SpherePlanePairs ==
    { <<SphereRep(c, r), PlaneRep(pose)>> : c \in Points, r \in Radii, pose \in PlanePoses }

NewPair(a, b) == [first |-> a, second |-> b, isSwapped |-> FALSE, contacts |-> <<>>]

InitContact ==
    /\ calc \in {"SphereSphere", "BoxSphere", "SpherePlane"}
    /\ \E ab \in (CASE calc = "SphereSphere" ->
                        { x \in SphereSpherePairs : SphereSphereOnGrid(x[1], x[2]) }
                    [] calc = "BoxSphere" ->
                        { x \in BoxSpherePairs : BoxSphereOnGrid(x[1], x[2]) }
                    [] calc = "SpherePlane" -> SpherePlanePairs) :
           pair \in {NewPair(ab[1], ab[2]), NewPair(ab[2], ab[1])}
    /\ calcPc = "ready"

NextContact ==
    \/ SphereSphereCalculateContact
    \/ BoxSphereCalculateContact
    \/ SpherePlaneCalculateContact

\* ------------------------------------------------------------------------
\* ConstraintImplementationFactory
\* ------------------------------------------------------------------------
Null == [class |-> "nullptr", serial |-> 0]

\* RepresentationType, without REPRESENTATION_TYPE_COUNT
RepresentationTypes == {"FIXED", "RIGID", "MASSSPRING", "FEM1D", "FEM3D"}
\* MlcpConstraintType, without MLCP_NUM_CONSTRAINT_TYPES
MlcpConstraintTypes ==
    {"MLCP_BILATERAL_1D_CONSTRAINT", "MLCP_BILATERAL_2D_CONSTRAINT",
     "MLCP_BILATERAL_3D_CONSTRAINT", "MLCP_UNILATERAL_3D_FRICTIONLESS_CONSTRAINT",
     "MLCP_UNILATERAL_3D_FRICTIONAL_CONSTRAINT",
     "MLCP_BILATERAL_FRICTIONLESS_SLIDING_CONSTRAINT",
     "MLCP_BILATERAL_FRICTIONAL_SLIDING_CONSTRAINT"}

ImplementationClasses ==
    {"FixedRepresentationContact", "RigidRepresentationContact",
     "Fem3DRepresentationContact", "RigidRepresentationBilateral3D"}

\* implementation->getRepresentationType()
GetRepresentationType(impl) ==
    CASE impl.class = "FixedRepresentationContact" -> "FIXED"
      [] impl.class = "RigidRepresentationContact" -> "RIGID"
      [] impl.class = "Fem3DRepresentationContact" -> "FEM3D"
      [] impl.class = "RigidRepresentationBilateral3D" -> "RIGID"

\* implementation->getMlcpConstraintType()
GetMlcpConstraintType(impl) ==
    IF impl.class = "RigidRepresentationBilateral3D"
    THEN "MLCP_BILATERAL_3D_CONSTRAINT"
    ELSE "MLCP_UNILATERAL_3D_FRICTIONLESS_CONSTRAINT"

\* An instance is told from another of its class by its serial number; the
\* instances the constructor makes have serial 0.
Instance(class, serial) == [class |-> class, serial |-> serial]
CallerInstances == { Instance(c, n) : c \in ImplementationClasses, n \in 1..MaxInstances }

AddedTableFirstColumn(table, impl) ==
    [table EXCEPT ![GetRepresentationType(impl)]["MLCP_BILATERAL_1D_CONSTRAINT"] = impl]

\* The cell addImplementation writes.
AddedTable(table, impl) ==
    [table EXCEPT ![GetRepresentationType(impl)][GetMlcpConstraintType(impl)] = impl]

\* ConstraintImplementationFactory::ConstraintImplementationFactory
ConstructedTable ==
    AddedTable(AddedTable(AddedTable(
        [rt \in RepresentationTypes |-> [ct \in MlcpConstraintTypes |-> Null]],
        Instance("FixedRepresentationContact", 0)),
        Instance("RigidRepresentationContact", 0)),
        Instance("Fem3DRepresentationContact", 0))

AddImplementation ==
    \E impl \in CallerInstances :
        /\ m_implementations' = AddedTable(m_implementations, impl)
        /\ lastCall' = [op |-> "addImplementation", implementation |-> impl,
                        representationType |-> GetRepresentationType(impl),
                        constraintType |-> GetMlcpConstraintType(impl),
                        threw |-> FALSE, warned |-> FALSE]
        /\ UNCHANGED exceptFactory

\* The two SURGSIM_ASSERTs of getImplementation.
TypesInRange(representationType, constraintType) ==
    /\ representationType \in RepresentationTypes
    /\ constraintType \in MlcpConstraintTypes

GetImplementation ==
    \E representationType \in RepresentationTypes \cup {"COUNT"},
       constraintType \in MlcpConstraintTypes \cup {"MLCP_NUM_CONSTRAINT_TYPES"} :
        /\ IF TypesInRange(representationType, constraintType)
           THEN LET implementation == m_implementations[representationType][constraintType]
                IN lastCall' = [op |-> "getImplementation",
                                implementation |-> implementation,
                                representationType |-> representationType,
                                constraintType |-> constraintType,
                                threw |-> FALSE,
                                warned |-> (implementation = Null)]
           ELSE lastCall' = [op |-> "getImplementation", implementation |-> Null,
                             representationType |-> representationType,
                             constraintType |-> constraintType,
                             threw |-> TRUE, warned |-> FALSE]
        /\ UNCHANGED m_implementations
        /\ UNCHANGED exceptFactory

NoCall == [op |-> "none", implementation |-> Null, representationType |-> "FIXED",
           constraintType |-> "MLCP_BILATERAL_1D_CONSTRAINT",
           threw |-> FALSE, warned |-> FALSE]

InitFactory ==
    /\ m_implementations = ConstructedTable
    /\ lastCall = NoCall

NextFactory == AddImplementation \/ GetImplementation

\* ------------------------------------------------------------------------
\* RigidRepresentationBilateral3D::build into an MlcpPhysicsProblem
\*
\* Positions are in tenths of a unit and dt in milliseconds, so that the
\* values of the unit tests ((8.0, 6.4, 3.5), (3.0, 7.7, 0.0), dt = 1e-3)
\* are integers; a matrix is a sequence of rows.
\* ------------------------------------------------------------------------
MaxDt == 2          \* dt ranges over 1..MaxDt
MaxExtraRows == 1   \* constraint rows of the problem besides the 3 built
MaxExtraCols == 1   \* DoF columns of the problem besides the 12 of the two sides

ZeroMatrix(rows, cols) == [i \in 1..rows |-> [j \in 1..cols |-> 0]]

\* MlcpPhysicsProblem::Zero(numDof, numConstraintDof, numConstraints)
MlcpPhysicsProblemZero(numDof, numConstraintDof) ==
    [H |-> ZeroMatrix(numConstraintDof, numDof),
     b |-> [i \in 1..numConstraintDof |-> 0],
     constraintTypes |-> <<>>]

\* dt * Identity and DiagonalMatrix(dt * v), both 3x3.
ScaledIdentity(k) == [i \in 1..3 |-> [j \in 1..3 |-> IF i = j THEN k ELSE 0]]
DiagonalMatrix(v) == [i \in 1..3 |-> [j \in 1..3 |-> IF i = j THEN v[i] ELSE 0]]

\* SurgSim::Math::setSubMatrix(sub, blockIdRow, blockIdCol, 3, 3, &H):
\* block ids count blocks of 3 from zero.
SetSubMatrix(sub, blockIdRow, blockIdCol, H) ==
    [i \in 1..Len(H) |-> [j \in 1..Len(H[i]) |->
        IF /\ i - 3 * blockIdRow \in 1..3
           /\ j - 3 * blockIdCol \in 1..3
        THEN sub[i - 3 * blockIdRow][j - 3 * blockIdCol]
        ELSE H[i][j]]]

SideScale(sign) == IF sign = "CONSTRAINT_POSITIVE_SIDE" THEN 1 ELSE -1

\* build(dt, data, localization, mlcp, indexOfRepresentation,
\*       indexOfConstraint, sign) for a localization at `position` on a
\* representation whose pose is the identity: three rows of H over the six
\* DoF columns of the representation, the violation accumulated into b, and
\* constraintTypes left as it is.
Build(dt, position, problem, indexOfRepresentation, indexOfConstraint, sign) ==
    LET scale == SideScale(sign)
        inRows(i) == i - indexOfConstraint \in 1..3
    IN [problem EXCEPT
          !.H = [i \in 1..Len(problem.H) |-> [j \in 1..Len(problem.H[i]) |->
                    IF inRows(i) /\ j - indexOfRepresentation \in 1..3
                    THEN IF i - indexOfConstraint = j - indexOfRepresentation
                         THEN dt * scale ELSE 0
                    ELSE IF inRows(i) /\ j - indexOfRepresentation \in 4..6
                    THEN IF i - indexOfConstraint = j - indexOfRepresentation - 3
                         THEN dt * scale * position[i - indexOfConstraint] ELSE 0
                    ELSE problem.H[i][j]]],
          !.b = [i \in 1..Len(problem.b) |->
                    IF inRows(i)
                    THEN problem.b[i] + scale * position[i - indexOfConstraint]
                    ELSE problem.b[i]]]

\* The first build of BuildMlcpTwoStep: the positive side at column 0.
BuildPositiveSide ==
    /\ buildPc = "ready"
    /\ mlcp' = Build(buildInput.dt, buildInput.actual, mlcp, 0,
                     buildInput.indexOfConstraint, "CONSTRAINT_POSITIVE_SIDE")
    /\ buildPc' = "positive"
    /\ UNCHANGED buildInput
    /\ UNCHANGED exceptBuild

\* The second build: the negative side at column 6, same constraint rows.
BuildNegativeSide ==
    /\ buildPc = "positive"
    /\ mlcp' = Build(buildInput.dt, buildInput.desired, mlcp, 6,
                     buildInput.indexOfConstraint, "CONSTRAINT_NEGATIVE_SIDE")
    /\ buildPc' = "done"
    /\ UNCHANGED buildInput
    /\ UNCHANGED exceptBuild

\* The H and b the unit tests expect for one constraint built at row 0 of a
\* problem of three rows.
ExpectedOneSideH(dt, actual) ==
    SetSubMatrix(DiagonalMatrix(Scale(actual, dt)), 0, 1,
    SetSubMatrix(ScaledIdentity(dt), 0, 0, ZeroMatrix(3, 6)))

ExpectedTwoStepHSameSign(dt, actual, desired) ==
    SetSubMatrix(DiagonalMatrix(Scale(desired, dt)), 0, 3,
    SetSubMatrix(ScaledIdentity(dt), 0, 2,
    SetSubMatrix(DiagonalMatrix(Scale(actual, dt)), 0, 1,
    SetSubMatrix(ScaledIdentity(dt), 0, 0, ZeroMatrix(3, 12)))))

ExpectedTwoStepH(dt, actual, desired) ==
    SetSubMatrix(DiagonalMatrix(Scale(desired, -dt)), 0, 3,
    SetSubMatrix(ScaledIdentity(-dt), 0, 2,
    SetSubMatrix(DiagonalMatrix(Scale(actual, dt)), 0, 1,
    SetSubMatrix(ScaledIdentity(dt), 0, 0, ZeroMatrix(3, 12)))))

ExpectedTwoStepViolation(actual, desired) == Sub(actual, desired)

LocalPositions == { <<80, 64, 35>>, <<30, 77, 0>>, <<0, 0, 0>>, <<-10, 5, 20>> }

InitBuild ==
    /\ \E dt \in 1..MaxDt, actual \in LocalPositions, desired \in LocalPositions,
          extraRows \in 0..MaxExtraRows, extraCols \in 0..MaxExtraCols :
          \E indexOfConstraint \in 0..extraRows :
             /\ buildInput = [dt |-> dt, actual |-> actual, desired |-> desired,
                              indexOfConstraint |-> indexOfConstraint]
             /\ mlcp = MlcpPhysicsProblemZero(12 + extraCols, 3 + extraRows)
    /\ buildPc = "ready"

NextBuild == BuildPositiveSide \/ BuildNegativeSide

\* ------------------------------------------------------------------------
\* MassSpringRepresentation
\*
\* m_x, m_v and m_f are kept as one 3-vector per node (the code keeps them
\* flat and reads node n at segment(3 * n, 3)); node ids count from zero as
\* in the code, so node n is element n + 1.  The chain is laid along the axis
\* of gravity, which keeps every length an integer.
\* ------------------------------------------------------------------------
MaxNodes == 3        \* numNodesPerDim[0] ranges over 2..MaxNodes
MaxSteps == 11       \* update calls in one run
MaxMagnitude == 200  \* update is not called once a coordinate exceeds this

Zero3 == <<0, 0, 0>>

\* Representation::getGravity
Gravity == <<0, -1, 0>>

\* Vector3d::norm for the vectors met here: exact on an axis.
Norm(v) ==
    IF Cardinality({i \in 1..3 : v[i] # 0}) <= 1
    THEN Abs(v[1]) + Abs(v[2]) + Abs(v[3])
    ELSE ISqrt(SquaredNorm(v))

\* a / k and v / k for a k that divides a and every component of v.
Quotient(a, k) == IF a >= 0 THEN a \div k ELSE -((-a) \div k)
DivideBy(v, k) == [i \in 1..3 |-> Quotient(v[i], k)]

NumMasses(r) == Len(r.m_x)
NumSprings(r) == Len(r.initialLength)

\* LinearSpringParameter::getF(xA, xB, vA, vB): the force on A of a spring
\* with stiffness and damping along AB; defined for A # B.
SpringGetF(r, springId, xA, xB, vA, vB) ==
    LET AB == Sub(xB, xA)
        length == Norm(AB)
        direction == DivideBy(AB, length)
    IN Scale(direction, r.stiffness * (length - r.initialLength[springId])
                          + r.damping * Dot(Sub(vB, vA), direction))

\* 1) gravity on every node, if enabled
GravityForce(r) ==
    [n \in 1..NumMasses(r) |->
        IF r.isGravityEnabled THEN Scale(Gravity, r.mass) ELSE Zero3]

\* 2) addRayleighDampingForce(&m_f, m_v, scale)
AddRayleighDampingForce(r, f, v, scale) ==
    IF r.massCoefficient # 0
    THEN [n \in 1..NumMasses(r) |->
            Sub(f[n], Scale(v[n], scale * r.massCoefficient * r.mass))]
    ELSE f

\* 3) the loop over the springs; spring s joins nodes s - 1 and s (from zero)
RECURSIVE AddSpringForces(_, _, _)
AddSpringForces(r, f, springId) ==
    IF springId > NumSprings(r) THEN f
    ELSE LET nodeId0 == springId
             nodeId1 == springId + 1
             force == SpringGetF(r, springId, r.m_x[nodeId0], r.m_x[nodeId1],
                                 r.m_v[nodeId0], r.m_v[nodeId1])
         IN AddSpringForces(r,
                [f EXCEPT ![nodeId0] = Add3(f[nodeId0], force),
                          ![nodeId1] = Sub(f[nodeId1], force)],
                springId + 1)

\* 4) acceleration: every node's force divided by its mass
Accelerations(r, f) == [n \in 1..NumMasses(r) |-> DivideBy(f[n], r.mass)]

\* steps 1 to 4 of updateEulerExplicit: m_f before the integration
ForceAccumulation(r) ==
    Accelerations(r,
        AddSpringForces(r, AddRayleighDampingForce(r, GravityForce(r), r.m_v, 1), 1))

ZeroBoundaryNodesNone(r, vec) == vec

\* the loops over m_boundaryConditions: the three components of each listed
\* node set to zero
ZeroBoundaryNodes(r, vec) ==
    [n \in 1..Len(vec) |->
        IF \E b \in 1..Len(r.m_boundaryConditions) : r.m_boundaryConditions[b] + 1 = n
        THEN Zero3 ELSE vec[n]]

AddScaled(a, b, k) == [n \in 1..Len(a) |-> Add3(a[n], Scale(b[n], k))]

\* 5) with the old velocity in both schemes
UpdateEulerExplicitOldVelocity(r, dt, useModifiedEuler) ==
    LET f == ZeroBoundaryNodes(r, ForceAccumulation(r))
        v == ZeroBoundaryNodes(r, r.m_v)
    IN [r EXCEPT !.m_f = f, !.m_x = AddScaled(r.m_x, v, dt), !.m_v = AddScaled(v, f, dt)]

\* MassSpringRepresentation::updateEulerExplicit(dt, useModifiedEuler)
UpdateEulerExplicit(r, dt, useModifiedEuler) ==
    LET f == ForceAccumulation(r)
    IN IF useModifiedEuler
       THEN LET v == ZeroBoundaryNodes(r, AddScaled(r.m_v, f, dt))
            IN [r EXCEPT !.m_f = f, !.m_v = v, !.m_x = AddScaled(r.m_x, v, dt)]
       ELSE LET fZeroed == ZeroBoundaryNodes(r, f)
                v == ZeroBoundaryNodes(r, r.m_v)
            IN [r EXCEPT !.m_f = fZeroed,
                         !.m_x = AddScaled(r.m_x, v, dt),
                         !.m_v = AddScaled(v, fZeroed, dt)]

MassSpringBeforeUpdateAlways(r, dt) == [r EXCEPT !.m_xPrevious = r.m_x]

\* MassSpringRepresentation::beforeUpdate
MassSpringBeforeUpdate(r, dt) ==
    IF ~r.isActive THEN r ELSE [r EXCEPT !.m_xPrevious = r.m_x]

\* MassSpringRepresentation::update
MassSpringUpdate(r, dt) ==
    IF ~r.isActive THEN r
    ELSE IF r.m_integrationScheme = "INTEGRATIONSCHEME_EXPLICIT_EULER"
         THEN UpdateEulerExplicit(r, dt, FALSE)
    ELSE IF r.m_integrationScheme = "INTEGRATIONSCHEME_MODIFIED_EXPLICIT_EULER"
         THEN UpdateEulerExplicit(r, dt, TRUE)
    ELSE r

MassSpringAfterUpdatePositionsOnly(r, dt) ==
    IF ~r.isActive THEN r
    ELSE [r EXCEPT !.m_finalState.position = r.m_x]

\* MassSpringRepresentation::afterUpdate
MassSpringAfterUpdate(r, dt) ==
    IF ~r.isActive THEN r
    ELSE [r EXCEPT !.m_finalState = [position |-> r.m_x, velocity |-> r.m_v]]

\* MassSpringRepresentation::init1D with m_initialPose the identity
Init1D(extremities, numNodes, totalMass, springStiffness, springDamping) ==
    LET delta == DivideBy(Sub(extremities[2], extremities[1]), numNodes - 1)
        position == [n \in 1..numNodes |-> Add3(extremities[1], Scale(delta, n - 1))]
        velocity == [n \in 1..numNodes |-> Zero3]
    IN [isActive |-> TRUE, isGravityEnabled |-> TRUE,
        m_integrationScheme |-> "INTEGRATIONSCHEME_EXPLICIT_EULER",
        m_boundaryConditions |-> << >>,
        massCoefficient |-> 0,
        mass |-> totalMass \div numNodes,
        stiffness |-> springStiffness,
        damping |-> springDamping,
        initialLength |-> [e \in 1..(numNodes - 1) |->
                              Norm(Sub(position[e + 1], position[e]))],
        m_initialState |-> [position |-> position, velocity |-> velocity],
        m_finalState |-> [position |-> position, velocity |-> velocity],
        m_x |-> position, m_xPrevious |-> position, m_v |-> velocity,
        m_f |-> [n \in 1..numNodes |-> Zero3]]

\* No coordinate beyond MaxMagnitude, and no spring of length zero (where
\* the direction of its force is not defined).
WithinRange(r) ==
    /\ \A n \in 1..NumMasses(r) : \A i \in 1..3 :
          Abs(r.m_x[n][i]) <= MaxMagnitude /\ Abs(r.m_v[n][i]) <= MaxMagnitude
    /\ \A e \in 1..NumSprings(r) : r.m_x[e] # r.m_x[e + 1]

IsZeroField(vec) == \A n \in 1..Len(vec) : vec[n] = Zero3

\* The blocks of dofCorrection handed to applyDofCorrection.
CorrectionBlocks(r) ==
    { [i \in 1..(3 * NumMasses(r)) |-> c] : c \in {0, 1} }

BeforeUpdate ==
    /\ msPc = "ready"
    /\ ms' = MassSpringBeforeUpdate(ms, msDt)
    /\ msPc' = "before"
    /\ UNCHANGED <<msDt, msSteps, msDrift>>
    /\ UNCHANGED exceptMassSpring

Update ==
    /\ msPc = "before"
    /\ ms.isActive => (msSteps < MaxSteps /\ WithinRange(ms))
    /\ ms' = MassSpringUpdate(ms, msDt)
    /\ msPc' = "updated"
    /\ msSteps' = IF ms.isActive THEN msSteps + 1 ELSE msSteps
    /\ msDrift' = IF /\ ms.isActive
                     /\ IsZeroField(ForceAccumulation(ms))
                     /\ ~IsZeroField(ms.m_v)
                  THEN msDrift + 1 ELSE 0
    /\ UNCHANGED msDt
    /\ UNCHANGED exceptMassSpring

\* PushResults hands the representation its block of the correction.
ApplyCorrection ==
    /\ msPc = "updated"
    /\ \E block \in CorrectionBlocks(ms) :
          ms' = MassSpringApplyDofCorrection(ms, block)
    /\ msPc' = "corrected"
    /\ UNCHANGED <<msDt, msSteps, msDrift>>
    /\ UNCHANGED exceptMassSpring

AfterUpdate ==
    /\ msPc \in {"updated", "corrected"}
    /\ ms' = MassSpringAfterUpdate(ms, msDt)
    /\ msPc' = "ready"
    /\ UNCHANGED <<msDt, msSteps, msDrift>>
    /\ UNCHANGED exceptMassSpring

\* Representation::setIsGravityEnabled(false), between two ticks
DisableGravity ==
    /\ msPc = "ready"
    /\ ms.isGravityEnabled
    /\ ms' = [ms EXCEPT !.isGravityEnabled = FALSE]
    /\ UNCHANGED <<msDt, msPc, msSteps, msDrift>>
    /\ UNCHANGED exceptMassSpring

\* Representation::setIsActive(false), at any point of a tick
Deactivate ==
    /\ msPc # "idle"
    /\ ms.isActive
    /\ ms' = [ms EXCEPT !.isActive = FALSE]
    /\ UNCHANGED <<msDt, msPc, msSteps, msDrift>>
    /\ UNCHANGED exceptMassSpring

IntegrationSchemes ==
    {"INTEGRATIONSCHEME_EXPLICIT_EULER", "INTEGRATIONSCHEME_MODIFIED_EXPLICIT_EULER"}

\* The lists of addBoundaryCondition calls tried: none, either end, both.
BoundaryConditionLists(numNodes) ==
    { << >>, <<0>>, <<numNodes - 1>>, <<0, numNodes - 1>> }

\* (stiffness, damping) of the springs
SpringParameters == { <<0, 0>>, <<2, 2>> }

InitMassSpring ==
    /\ \E numNodes \in 2..MaxNodes, massPerNode \in {1, 2},
          spring \in SpringParameters, massCoefficient \in {0, 1},
          scheme \in IntegrationSchemes :
          \E bc \in BoundaryConditionLists(numNodes) :
             ms = [Init1D(<<Zero3, <<0, -2 * (numNodes - 1), 0>>>>, numNodes,
                          massPerNode * numNodes, spring[1], spring[2])
                      EXCEPT !.m_integrationScheme = scheme,
                             !.m_boundaryConditions = bc,
                             !.massCoefficient = massCoefficient]
    /\ msDt \in 1..MaxDt
    /\ msPc = "ready"
    /\ msSteps = 0
    /\ msDrift = 0

NextMassSpring ==
    \/ BeforeUpdate \/ Update \/ ApplyCorrection \/ AfterUpdate
    \/ DisableGravity \/ Deactivate

\* ------------------------------------------------------------------------
\* ModifiedExplicitEuler and LinearModifiedExplicitEuler
\*
\* The state has three DoF.  M is diagonal; a diagonal matrix of fractions is
\* kept as its numerators and denominators.  Accelerations are fractions
\* (num / den), the other vectors are integers: the forces of the equations
\* tried are multiples of the masses.
\* ------------------------------------------------------------------------
DiagonalOver(diagonal, k) == [num |-> diagonal, den |-> <<k, k, k>>]
DiagonalInverse(A) == [num |-> A.den, den |-> A.num]
DiagonalTimes(A, v) == [i \in 1..3 |-> Quotient(A.num[i] * v[i], A.den[i])]

\* q / k
QDivide(q, k) ==
    IF \A i \in 1..3 : q.num[i] % k = 0
    THEN Q(DivideBy(q.num, k), q.den)
    ELSE Q(q.num, q.den * k)

\* OdeEquation::computeF(state): gravity and viscous drag on each DoF
ComputeF(equation, state) ==
    [i \in 1..3 |-> equation.M[i] * (equation.gravity[i]
                                      - equation.viscosity * state.velocities[i])]

\* OdeEquation::computeM(state)
ComputeM(equation, state) == equation.M

\* m_solveAndInverse(A, b, &x, &Ainv)
SolveAndInverse(A, b) ==
    [x |-> DiagonalTimes(DiagonalInverse(A), b), inverse |-> DiagonalInverse(A)]

\* ModifiedExplicitEuler::solve(dt, currentState, newState): the solver and
\* *newState after the call
ModifiedExplicitEulerSolve(solver, equation, dt, currentState, newState) ==
    LET f == ComputeF(equation, currentState)
        M == ComputeM(equation, currentState)
        systemMatrix == DiagonalOver(M, dt)
        solved == SolveAndInverse(systemMatrix, f)
        deltaV == solved.x
        velocities == Add3(currentState.velocities, deltaV)
    IN [solver |-> [solver EXCEPT !.m_systemMatrix = systemMatrix,
                                  !.m_compliance = solved.inverse],
        newState |-> [positions |-> Add3(currentState.positions, Scale(velocities, dt)),
                      velocities |-> velocities,
                      accelerations |-> QDivide(Q(deltaV, 1), dt)]]

\* LinearModifiedExplicitEuler::solve(dt, currentState, newState)
LinearModifiedExplicitEulerSolve(solver, equation, dt, currentState, newState) ==
    IF ~solver.m_initialized
    THEN LET first == ModifiedExplicitEulerSolve(solver, equation, dt,
                                                 currentState, newState)
         IN [first EXCEPT !.solver.m_initialized = TRUE]
    ELSE LET f == ComputeF(equation, currentState)
             deltaV == DiagonalTimes(solver.m_compliance, f)
             velocities == Add3(currentState.velocities, deltaV)
         IN [solver |-> solver,
             newState |-> [positions |-> Add3(currentState.positions,
                                              Scale(velocities, dt)),
                           velocities |-> velocities,
                           accelerations |-> QDivide(newState.accelerations, dt)]]

\* OdeSolver::solve, dispatched on the class of the solver
OdeSolve(solver, equation, dt, currentState, newState) ==
    IF solver.class = "LinearModifiedExplicitEuler"
    THEN LinearModifiedExplicitEulerSolve(solver, equation, dt, currentState, newState)
    ELSE ModifiedExplicitEulerSolve(solver, equation, dt, currentState, newState)

OdeState(positions, velocities) ==
    [positions |-> positions, velocities |-> velocities,
     accelerations |-> Q(Zero3, 1)]

\* The states a caller hands to solve, besides the one solve wrote last.
OdeInputStates ==
    { OdeState(x, v) : x \in {Zero3, <<2, 0, -2>>}, v \in {Zero3, <<1, -2, 0>>} }

NewSolver(class) ==
    [class |-> class, m_initialized |-> FALSE,
     m_systemMatrix |-> DiagonalOver(Zero3, 1),
     m_compliance |-> DiagonalOver(Zero3, 1)]

\* One solver.solve(dt, currentState, &newState) call.
Solve ==
    /\ odeSolves < MaxSteps
    /\ \E currentState \in OdeInputStates \cup {odeNew} :
          LET out == OdeSolve(odeSolver, odeEquation, odeDt, currentState, odeNew)
          IN /\ odeSolver' = out.solver
             /\ odeNew' = out.newState
             /\ odeCurrent' = currentState
             /\ odeDrift' = IF /\ ComputeF(odeEquation, currentState) = Zero3
                              /\ currentState.velocities # Zero3
                              /\ (odeDrift = 0 \/ currentState = odeNew)
                           THEN odeDrift + 1 ELSE 0
    /\ odeSolves' = odeSolves + 1
    /\ UNCHANGED <<odeEquation, odeDt>>
    /\ UNCHANGED exceptOde

InitOde ==
    /\ odeSolver \in { NewSolver(class) :
                          class \in {"ModifiedExplicitEuler", "LinearModifiedExplicitEuler"} }
    /\ odeEquation \in [M : {<<1, 1, 1>>, <<1, 2, 2>>},
                         gravity : {Zero3, Gravity},
                         viscosity : {0, 1}]
    /\ odeDt \in 1..MaxDt
    /\ odeCurrent = OdeState(Zero3, Zero3)
    /\ odeNew = OdeState(Zero3, Zero3)
    /\ odeSolves = 0
    /\ odeDrift = 0

NextOde == Solve

\* ------------------------------------------------------------------------
\* Barrier and BasicThread
\*
\* A thread is either a BasicThread running operator()() with the barrier as
\* its startup barrier, or a plain caller of Barrier::wait (as the main
\* thread of the unit test is).  wait runs under m_mutex: a call is one step
\* up to the point where it returns or blocks on m_cond, and one more step
\* when a blocked call wakes up.
\* ------------------------------------------------------------------------
MaxThreads == 2   \* the constructor's count ranges over 1..MaxThreads
MaxRounds == 2    \* wait calls of one plain caller
MaxUpdates == 2   \* update calls of one BasicThread

\* Barrier::Barrier(count)
NewBarrier(count) ==
    [m_threshold |-> count, m_count |-> count, m_generation |-> 0,
     m_success |-> TRUE, m_successResult |-> FALSE]

IsLastArrivalAlways(b) == TRUE

\* --m_count == 0
IsLastArrival(b) == b.m_count - 1 = 0

CombinedSuccessLastOnly(b, success) == success

\* m_success = m_success && success
CombinedSuccess(b, success) == b.m_success /\ success

\* Barrier::wait(success) up to its return or its m_cond.wait: the barrier
\* it leaves behind.  The last thread of a round starts the next generation,
\* publishes the result and resets m_count and m_success.
BarrierArrive(b, success) ==
    IF IsLastArrival(b)
    THEN [b EXCEPT !.m_generation = b.m_generation + 1,
                   !.m_count = b.m_threshold,
                   !.m_successResult = CombinedSuccess(b, success),
                   !.m_success = TRUE]
    ELSE [b EXCEPT !.m_count = b.m_count - 1,
                   !.m_success = CombinedSuccess(b, success)]

Threads == 1..barrier.m_threshold

NewThread(kind) ==
    [kind |-> kind, phase |-> "init", pc |-> "ready", success |-> TRUE,
     gen |-> 0, result |-> FALSE, waits |-> 0,
     didInitialize |-> FALSE, didStartUp |-> FALSE,
     m_isInitialised |-> FALSE, m_isRunning |-> FALSE, updates |-> 0,
     m_stopExecution |-> FALSE, stopper |-> "none"]

\* BasicThread::doInit: init() is called and its result kept.
ThreadInit ==
    \E t \in Threads, ok \in BOOLEAN :
        /\ threads[t].kind = "BasicThread"
        /\ threads[t].phase = "init" /\ threads[t].pc = "ready"
        /\ threads' = [threads EXCEPT ![t].didInitialize = TRUE,
                                      ![t].m_isInitialised = ok,
                                      ![t].success = ok,
                                      ![t].pc = "arrive"]
        /\ UNCHANGED <<barrier, called, returned>>
        /\ UNCHANGED exceptThreads

WaitRecord(round, t, value) == [round |-> round, thread |-> t, value |-> value]

WaitArgumentAlwaysTrue(thread) == TRUE

\* success = m_startupBarrier->wait(success): the result of the phase the
\* thread has just run
WaitArgument(thread) == thread.success

\* Barrier::wait(success) from the call to its return or to m_cond.wait.  A
\* BasicThread passes the result of the phase it has just run; a plain
\* caller passes what it likes.
BarrierWaitEnter ==
    \E t \in Threads, chosen \in BOOLEAN :
        LET isCaller == threads[t].kind = "caller"
            success == IF isCaller THEN chosen ELSE WaitArgument(threads[t])
            round == barrier.m_generation
        IN /\ IF isCaller
              THEN threads[t].pc \in {"ready", "returned"} /\ threads[t].waits < MaxRounds
              ELSE threads[t].pc = "arrive" /\ chosen
           /\ barrier' = BarrierArrive(barrier, success)
           /\ called' = called \cup {WaitRecord(round, t, success)}
           /\ IF IsLastArrival(barrier)
              THEN /\ threads' = [threads EXCEPT ![t].pc = "returned",
                                                 ![t].gen = round,
                                                 ![t].waits = @ + 1,
                                                 ![t].result = barrier'.m_successResult]
                   /\ returned' = returned
                                     \cup {WaitRecord(round, t, barrier'.m_successResult)}
              ELSE /\ threads' = [threads EXCEPT ![t].pc = "blocked",
                                                 ![t].gen = round,
                                                 ![t].waits = @ + 1]
                   /\ UNCHANGED returned
           /\ UNCHANGED exceptThreads

\* A blocked wait finds m_generation changed and returns m_successResult.
BarrierWaitReturn ==
    \E t \in Threads :
        /\ threads[t].pc = "blocked"
        /\ threads[t].gen # barrier.m_generation
        /\ threads' = [threads EXCEPT ![t].pc = "returned",
                                      ![t].result = barrier.m_successResult]
        /\ returned' = returned
                          \cup {WaitRecord(threads[t].gen, t, barrier.m_successResult)}
        /\ UNCHANGED <<barrier, called>>
        /\ UNCHANGED exceptThreads

PassedBarrierWithoutWaiting(thread) == thread.pc \in {"arrive", "returned"}

\* success = m_startupBarrier->wait(success) has returned true
PassedBarrier(thread) == thread.pc = "returned" /\ thread.result

\* BasicThread::doStartup, after the first wait returned true.
ThreadStartup ==
    \E t \in Threads, ok \in BOOLEAN :
        /\ threads[t].kind = "BasicThread"
        /\ threads[t].phase = "init"
        /\ PassedBarrier(threads[t])
        /\ threads' = [threads EXCEPT ![t].phase = "startup",
                                      ![t].didStartUp = TRUE,
                                      ![t].success = ok,
                                      ![t].pc = "arrive"]
        /\ UNCHANGED <<barrier, called, returned>>
        /\ UNCHANGED exceptThreads

\* The second wait returned true: the thread enters its run loop.
ThreadRun ==
    \E t \in Threads :
        /\ threads[t].kind = "BasicThread"
        /\ threads[t].phase = "startup"
        /\ PassedBarrier(threads[t])
        /\ threads' = [threads EXCEPT ![t].phase = "run",
                                      ![t].m_isRunning = TRUE,
                                      ![t].pc = "ready"]
        /\ UNCHANGED <<barrier, called, returned>>
        /\ UNCHANGED exceptThreads

AtLoopConditionOrUpdating(thread) ==
    thread.phase = "run" /\ thread.pc \in {"ready", "updating"}

\* The thread is at while (m_isRunning && !m_stopExecution).
AtLoopCondition(thread) == thread.phase = "run" /\ thread.pc = "ready"

\* The loop condition holds and update(dt) is called.
ThreadUpdateCall ==
    \E t \in Threads :
        /\ AtLoopCondition(threads[t])
        /\ threads[t].m_isRunning /\ ~threads[t].m_stopExecution
        /\ threads[t].updates < MaxUpdates
        /\ threads' = [threads EXCEPT ![t].pc = "updating"]
        /\ UNCHANGED <<barrier, called, returned>>
        /\ UNCHANGED exceptThreads

\* update(dt) returns and says whether to go on: m_isRunning = update(dt).
ThreadUpdate ==
    \E t \in Threads, more \in BOOLEAN :
        /\ threads[t].phase = "run" /\ threads[t].pc = "updating"
        /\ threads' = [threads EXCEPT ![t].updates = @ + 1,
                                      ![t].m_isRunning = more,
                                      ![t].pc = "ready"]
        /\ UNCHANGED <<barrier, called, returned>>
        /\ UNCHANGED exceptThreads

\* The loop condition fails, because update returned false or because a
\* stop was requested: m_isRunning = false and operator()() returns.
ThreadLeaveLoop ==
    \E t \in Threads :
        /\ AtLoopCondition(threads[t])
        /\ ~threads[t].m_isRunning \/ threads[t].m_stopExecution
        /\ threads' = [threads EXCEPT ![t].pc = "stopped", ![t].m_isRunning = FALSE]
        /\ UNCHANGED <<barrier, called, returned>>
        /\ UNCHANGED exceptThreads

\* BasicThread::doStop(waitForExit = true), called from outside at any
\* moment after doRun: m_stopExecution = true, then the join begins.
DoStop ==
    \E t \in Threads :
        /\ threads[t].kind = "BasicThread"
        /\ threads[t].stopper = "none"
        /\ threads' = [threads EXCEPT ![t].m_stopExecution = TRUE,
                                      ![t].stopper = "joining"]
        /\ UNCHANGED <<barrier, called, returned>>
        /\ UNCHANGED exceptThreads

\* m_thisThread.join() returns once operator()() has returned.
DoStopReturn ==
    \E t \in Threads :
        /\ threads[t].stopper = "joining"
        /\ threads[t].pc = "stopped"
        /\ threads' = [threads EXCEPT ![t].stopper = "returned"]
        /\ UNCHANGED <<barrier, called, returned>>
        /\ UNCHANGED exceptThreads

\* A wait returned false: operator()() returns without running.
ThreadExit ==
    \E t \in Threads :
        /\ threads[t].kind = "BasicThread"
        /\ threads[t].pc = "returned"
        /\ ~threads[t].result
        /\ threads' = [threads EXCEPT ![t].pc = "stopped", ![t].m_isRunning = FALSE]
        /\ UNCHANGED <<barrier, called, returned>>
        /\ UNCHANGED exceptThreads

InitThreads ==
    /\ \E count \in 1..MaxThreads :
          /\ barrier = NewBarrier(count)
          /\ \E kinds \in [1..count -> {"BasicThread", "caller"}] :
                threads = [t \in 1..count |-> NewThread(kinds[t])]
    /\ called = {}
    /\ returned = {}

NextThreads ==
    \/ ThreadInit \/ BarrierWaitEnter \/ BarrierWaitReturn
    \/ ThreadStartup \/ ThreadRun \/ ThreadUpdateCall \/ ThreadUpdate
    \/ ThreadLeaveLoop \/ ThreadExit

\* Threads that synchronise with each other only, as the managers of a
\* runtime do, and that are stopped from outside.
InitStop ==
    /\ \E count \in 1..MaxThreads :
          /\ barrier = NewBarrier(count)
          /\ threads = [t \in 1..count |-> NewThread("BasicThread")]
    /\ called = {}
    /\ returned = {}

NextStop == NextThreads \/ DoStop \/ DoStopReturn

\* ------------------------------------------------------------------------
\* NovintScaffold
\*
\* Application threads register and unregister device objects and set their
\* scale factors; the HDAL servo thread runs the haptic callback while a
\* callback exists.  m_state->mutex and each device's parametersMutex are
\* owned by a thread or free; a lock_guard blocks while the mutex is owned.
\* A failing SURGSIM_ASSERT ends the process: novintFailure names it and
\* nothing runs afterwards.
\* ------------------------------------------------------------------------
MaxDevices == 3      \* device objects 1..MaxDevices
MaxAppThreads == 2   \* application threads 1..MaxAppThreads
MaxCalls == 3        \* scaffold calls made by the application threads together
MaxFrames == 2       \* haptic frames run by the servo thread

NoOwner == -1
HapticThread == 0
DeviceObjects == 1..MaxDevices
AppThreads == 1..MaxAppThreads
ScaleFactors == {1, 2}

\* device->getName(): objects two apart carry the same name
GetName(device) == ((device - 1) % 2) + 1

\* device->getInitializationName(): one HDAL name per object
GetInitializationName(device) == device

\* device->is7DofDevice()
Is7DofDevice(device) == device % 2 = 0

\* DeviceData::DeviceData
DeviceData(device) ==
    [deviceObject |-> device,
     isPositionHomed |-> FALSE, isOrientationHomed |-> FALSE,
     isDeviceHomed |-> FALSE, isDeviceHeld |-> FALSE,
     isDevice7Dof |-> Is7DofDevice(device),
     positionScale |-> 1, orientationScale |-> 1,
     parametersMutex |-> NoOwner]

\* StateData::StateData
StateData ==
    [isApiInitialized |-> FALSE, callback |-> FALSE,
     activeDeviceList |-> <<>>, mutex |-> NoOwner]

MutexIsFreeAlways(owner) == TRUE

\* boost::lock_guard<boost::mutex> gets past its constructor
MutexIsFree(owner) == owner = NoOwner

\* std::find_if over activeDeviceList: the positions that match
Matching(list, device) ==
    { i \in 1..Len(list) : list[i].deviceObject = device }

HasSameNameNever(list, device) == FALSE

\* the sameName search of registerDevice
HasSameName(list, device) ==
    \E i \in 1..Len(list) : GetName(list[i].deviceObject) = GetName(device)

\* the sameInitializationName search of registerDevice
HasSameInitializationName(list, device) ==
    \E i \in 1..Len(list) :
        GetInitializationName(list[i].deviceObject) = GetInitializationName(device)

\* activeDeviceList.erase(matching)
Erase(list, i) == [k \in 1..(Len(list) - 1) |-> IF k < i THEN list[k] ELSE list[k + 1]]

\* The outcome of a scaffold call: the state it leaves, what it returns and
\* the assertion that failed, if one did.
Outcome(state, status, failure) ==
    [state |-> state, status |-> status, failure |-> failure]

\* NovintScaffold::createHapticLoop (startScheduler and the Callback succeed)
CreateHapticLoop(state) ==
    IF state.callback
    THEN Outcome(state, FALSE, "createHapticLoop")
    ELSE Outcome([state EXCEPT !.callback = TRUE], TRUE, "none")

\* NovintScaffold::destroyHapticLoop
DestroyHapticLoop(state) ==
    IF ~state.callback
    THEN Outcome(state, FALSE, "destroyHapticLoop")
    ELSE Outcome([state EXCEPT !.callback = FALSE], TRUE, "none")

\* NovintScaffold::registerDevice between taking and releasing m_state->mutex
RegisterDeviceLocked(state, device) ==
    LET sdk == [state EXCEPT !.isApiInitialized = TRUE]
        listed == [sdk EXCEPT !.activeDeviceList = Append(@, DeviceData(device))]
    IN IF Matching(sdk.activeDeviceList, device) # {}
       THEN Outcome(sdk, FALSE, "registerDevice")
       ELSE IF HasSameName(sdk.activeDeviceList, device)
       THEN Outcome(sdk, FALSE, "none")
       ELSE IF HasSameInitializationName(sdk.activeDeviceList, device)
       THEN Outcome(sdk, FALSE, "none")
       ELSE IF Len(listed.activeDeviceList) = 1
       THEN [CreateHapticLoop(listed) EXCEPT !.status = TRUE]
       ELSE Outcome(listed, TRUE, "none")

\* What HDAL hands to one updateDevice call: the calibration bit of
\* hdlGetState, the button bytes, the grip position and angle, and the
\* forward metric of the grip orientation in tenths.
Reading(calibrated, buttons, forwardMetric) ==
    [calibrated |-> calibrated, buttons |-> buttons, position |-> 1, angle |-> 1,
     forwardMetric |-> forwardMetric]

\* A homed device held still.
SteadyReadings == {Reading(TRUE, <<TRUE, TRUE, TRUE, FALSE>>, 10)}

\* A device that may lose and regain any part of its homing.
HomingReadings ==
    { Reading(calibrated, <<b0, b1, TRUE, FALSE>>, forwardMetric) :
        calibrated \in BOOLEAN, b0 \in BOOLEAN, b1 \in BOOLEAN, forwardMetric \in {5, 10} }

\* forwardPointingPoseThreshold(0.9), in tenths
ForwardPointingPoseThreshold == 9

NoButtons == <<FALSE, FALSE, FALSE, FALSE>>

\* NovintScaffold::checkDeviceHoming: the homing flags of the device.
CheckDeviceHoming(info, reading) ==
    LET isPositionHomed == reading.calibrated
        isOrientationHomed ==
            IF info.isDevice7Dof THEN reading.buttons[1] /\ reading.buttons[2] ELSE TRUE
        isDeviceHomed == IF info.isDevice7Dof THEN info.isDeviceHomed ELSE isPositionHomed
        isDeviceHeld == IF info.isDevice7Dof THEN reading.buttons[3] ELSE TRUE
    IN [info EXCEPT
          !.isPositionHomed = isPositionHomed,
          !.isOrientationHomed = isOrientationHomed,
          !.isDeviceHeld = isDeviceHeld,
          !.isDeviceHomed =
              IF /\ isPositionHomed /\ isOrientationHomed /\ ~isDeviceHomed
                 /\ reading.forwardMetric >= ForwardPointingPoseThreshold
              THEN TRUE
              ELSE isDeviceHomed]

\* The input frame updateDevice writes for pushInput: the pose from the
\* scaled position and orientation, the buttons and the homing flags.
InputFrame(info, reading) ==
    LET homed == CheckDeviceHoming(info, reading)
        positionValue == IF homed.isPositionHomed THEN reading.position ELSE 0
        rotation ==
            IF ~homed.isOrientationHomed THEN 0
            ELSE IF info.isDevice7Dof THEN reading.angle * info.orientationScale
            ELSE reading.angle
    IN [translation |-> positionValue * info.positionScale,
        rotation |-> rotation,
        buttons |-> IF info.isDevice7Dof THEN NoButtons ELSE reading.buttons,
        isHomed |-> homed.isDeviceHomed,
        isPositionHomed |-> homed.isPositionHomed,
        isOrientationHomed |-> homed.isOrientationHomed,
        published |-> TRUE]

\* The input data of a device object before its first frame.
NoInputFrame ==
    [translation |-> 0, rotation |-> 0, buttons |-> NoButtons, isHomed |-> FALSE,
     isPositionHomed |-> FALSE, isOrientationHomed |-> FALSE, published |-> FALSE]

NewAppThread ==
    [pc |-> "idle", op |-> "none", device |-> 1, scale |-> 1,
     haveOtherDevices |-> FALSE]

\* An unregisterDevice call has taken the device off the list and not yet
\* returned.
BeingUnregistered(device) ==
    \E a \in AppThreads :
        apps[a].pc \in {"destroy", "create"} /\ apps[a].device = device

\* Application thread a is between two calls and may make another.
MayCall(a) == apps[a].pc = "idle" /\ calls < MaxCalls

\* What the last call that returned was and what it returned.
Returned(a, op, device, status) ==
    [thread |-> a, op |-> op, device |-> device, status |-> status]

\* NovintScaffold::registerDevice, called by the initialize() of a device
\* object that is not registered.
RegisterDevice ==
    \E a \in AppThreads, device \in DeviceObjects :
        LET outcome == RegisterDeviceLocked(scaffold, device)
        IN /\ novintFailure = "none"
           /\ MayCall(a)
           /\ Matching(scaffold.activeDeviceList, device) = {}
           /\ ~BeingUnregistered(device)
           /\ MutexIsFree(scaffold.mutex)
           /\ scaffold' = outcome.state
           /\ novintFailure' = outcome.failure
           /\ calls' = calls + 1
           /\ lastReturn' = Returned(a, "register", device, outcome.status)
           /\ UNCHANGED <<apps, haptic, inputData, hdal>>
           /\ UNCHANGED exceptNovint

\* NovintScaffold::unregisterDevice, the block under m_state->mutex: the
\* device leaves the list and haveOtherDevices is taken.
UnregisterDevice ==
    \E a \in AppThreads, device \in DeviceObjects :
        LET matching == Matching(scaffold.activeDeviceList, device)
            list == IF matching = {} THEN scaffold.activeDeviceList
                    ELSE Erase(scaffold.activeDeviceList, CHOOSE i \in matching : TRUE)
        IN /\ novintFailure = "none"
           /\ MayCall(a)
           /\ ~BeingUnregistered(device)
           /\ MutexIsFree(scaffold.mutex)
           /\ scaffold' = [scaffold EXCEPT !.activeDeviceList = list]
           /\ calls' = calls + 1
           /\ IF matching = {}
              THEN /\ lastReturn' = Returned(a, "unregister", device, FALSE)
                   /\ UNCHANGED apps
              ELSE /\ apps' = [apps EXCEPT ![a].pc = "destroy", ![a].op = "unregister",
                                           ![a].device = device,
                                           ![a].haveOtherDevices = Len(list) > 0]
                   /\ UNCHANGED lastReturn
           /\ UNCHANGED <<haptic, inputData, hdal, novintFailure>>
           /\ UNCHANGED exceptNovint

\* unregisterDevice after the mutex is released: destroyHapticLoop and
\* finalizeDeviceState.
UnregisterDestroy ==
    \E a \in AppThreads :
        LET outcome == DestroyHapticLoop(scaffold)
        IN /\ novintFailure = "none"
           /\ apps[a].pc = "destroy"
           /\ scaffold' = outcome.state
           /\ novintFailure' = outcome.failure
           /\ IF apps[a].haveOtherDevices
              THEN /\ apps' = [apps EXCEPT ![a].pc = "create"]
                   /\ UNCHANGED lastReturn
              ELSE /\ apps' = [apps EXCEPT ![a] = NewAppThread]
                   /\ lastReturn' = Returned(a, "unregister", apps[a].device, TRUE)
           /\ UNCHANGED <<haptic, inputData, hdal, calls>>
           /\ UNCHANGED exceptNovint

\* unregisterDevice: if (haveOtherDevices) createHapticLoop()
UnregisterCreate ==
    \E a \in AppThreads :
        LET outcome == CreateHapticLoop(scaffold)
        IN /\ novintFailure = "none"
           /\ apps[a].pc = "create"
           /\ scaffold' = outcome.state
           /\ novintFailure' = outcome.failure
           /\ apps' = [apps EXCEPT ![a] = NewAppThread]
           /\ lastReturn' = Returned(a, "unregister", apps[a].device, TRUE)
           /\ UNCHANGED <<haptic, inputData, hdal, calls>>
           /\ UNCHANGED exceptNovint

\* setPositionScale / setOrientationScale: lock_guard on m_state->mutex.
SetScaleLock ==
    \E a \in AppThreads, device \in DeviceObjects, scale \in ScaleFactors,
       which \in {"positionScale", "orientationScale"} :
        /\ novintFailure = "none"
        /\ MayCall(a)
        /\ MutexIsFree(scaffold.mutex)
        /\ scaffold' = [scaffold EXCEPT !.mutex = a]
        /\ apps' = [apps EXCEPT ![a].pc = "locked", ![a].op = which,
                                ![a].device = device, ![a].scale = scale]
        /\ calls' = calls + 1
        /\ UNCHANGED <<haptic, inputData, hdal, novintFailure, lastReturn>>
        /\ UNCHANGED exceptNovint

\* The find_if, and for a registered device the lock_guard on its
\* parametersMutex; for any other the call returns.
SetScaleFind ==
    \E a \in AppThreads :
        LET matching == Matching(scaffold.activeDeviceList, apps[a].device)
        IN /\ novintFailure = "none"
           /\ apps[a].pc = "locked"
           /\ IF matching = {}
              THEN /\ scaffold' = [scaffold EXCEPT !.mutex = NoOwner]
                   /\ apps' = [apps EXCEPT ![a] = NewAppThread]
                   /\ lastReturn' = Returned(a, apps[a].op, apps[a].device, FALSE)
              ELSE \E i \in matching :
                     /\ MutexIsFree(scaffold.activeDeviceList[i].parametersMutex)
                     /\ scaffold' = [scaffold EXCEPT
                                       !.activeDeviceList[i].parametersMutex = a]
                     /\ apps' = [apps EXCEPT ![a].pc = "writing"]
                     /\ UNCHANGED lastReturn
           /\ UNCHANGED <<haptic, inputData, hdal, novintFailure, calls>>
           /\ UNCHANGED exceptNovint

\* (*matching)->positionScale = scale (or orientationScale); both locks are
\* released on the way out.
SetScaleWrite ==
    \E a \in AppThreads :
        \E i \in Matching(scaffold.activeDeviceList, apps[a].device) :
            /\ novintFailure = "none"
            /\ apps[a].pc = "writing"
            /\ scaffold' = [scaffold EXCEPT
                  !.activeDeviceList[i] =
                      [[@ EXCEPT ![apps[a].op] = apps[a].scale]
                          EXCEPT !.parametersMutex = NoOwner],
                  !.mutex = NoOwner]
            /\ apps' = [apps EXCEPT ![a] = NewAppThread]
            /\ lastReturn' = Returned(a, apps[a].op, apps[a].device, TRUE)
            /\ UNCHANGED <<haptic, inputData, hdal, novintFailure, calls>>
            /\ UNCHANGED exceptNovint

\* Callback::run -> runHapticFrame: lock_guard on m_state->mutex.
RunHapticFrame ==
    /\ novintFailure = "none"
    /\ scaffold.callback
    /\ haptic.pc = "idle" /\ haptic.frames < MaxFrames
    /\ MutexIsFree(scaffold.mutex)
    /\ scaffold' = [scaffold EXCEPT !.mutex = HapticThread]
    /\ haptic' = [haptic EXCEPT !.pc = "frame", !.it = 1]
    /\ UNCHANGED <<apps, inputData, hdal, novintFailure, calls, lastReturn>>
    /\ UNCHANGED exceptNovint

\* updateDevice(*it): lock_guard on the device's parametersMutex.
UpdateDeviceLock ==
    /\ novintFailure = "none"
    /\ haptic.pc = "frame" /\ haptic.it <= Len(scaffold.activeDeviceList)
    /\ MutexIsFree(scaffold.activeDeviceList[haptic.it].parametersMutex)
    /\ scaffold' = [scaffold EXCEPT
                      !.activeDeviceList[haptic.it].parametersMutex = HapticThread]
    /\ haptic' = [haptic EXCEPT !.pc = "updating"]
    /\ UNCHANGED <<apps, inputData, hdal, novintFailure, calls, lastReturn>>
    /\ UNCHANGED exceptNovint

\* The rest of updateDevice and pushInput: the device is read, its homing
\* checked, the frame written with the scale factors and published.
UpdateDevice ==
    \E reading \in hdal :
        LET info == scaffold.activeDeviceList[haptic.it]
        IN /\ novintFailure = "none"
           /\ haptic.pc = "updating"
           /\ scaffold' = [scaffold EXCEPT
                 !.activeDeviceList[haptic.it] =
                     [CheckDeviceHoming(info, reading) EXCEPT !.parametersMutex = NoOwner]]
           /\ inputData' = [inputData EXCEPT
                 ![info.deviceObject] = InputFrame(info, reading)]
           /\ haptic' = [haptic EXCEPT !.pc = "frame", !.it = @ + 1]
           /\ UNCHANGED <<apps, hdal, novintFailure, calls, lastReturn>>
           /\ UNCHANGED exceptNovint

\* The loop of runHapticFrame is through: the frame ends and the mutex is
\* released.
EndHapticFrame ==
    /\ novintFailure = "none"
    /\ haptic.pc = "frame" /\ haptic.it > Len(scaffold.activeDeviceList)
    /\ scaffold' = [scaffold EXCEPT !.mutex = NoOwner]
    /\ haptic' = [haptic EXCEPT !.pc = "idle", !.frames = @ + 1]
    /\ UNCHANGED <<apps, inputData, hdal, novintFailure, calls, lastReturn>>
    /\ UNCHANGED exceptNovint

\* A scaffold with no device yet, in front of well-behaved hardware.
InitNovint ==
    /\ scaffold = StateData
    /\ apps = [a \in AppThreads |-> NewAppThread]
    /\ haptic = [pc |-> "idle", it |-> 1, frames |-> 0]
    /\ inputData = [d \in DeviceObjects |-> NoInputFrame]
    /\ hdal = SteadyReadings
    /\ novintFailure = "none"
    /\ calls = 0
    /\ lastReturn = Returned(1, "none", 1, FALSE)

\* A 3-DoF and a 7-DoF device registered, the haptic loop running, and
\* hardware whose homing comes and goes.
InitHoming ==
    /\ scaffold = RegisterDeviceLocked(RegisterDeviceLocked(StateData, 1).state, 2).state
    /\ apps = [a \in AppThreads |-> NewAppThread]
    /\ calls = MaxCalls
    /\ haptic = [pc |-> "idle", it |-> 1, frames |-> 0]
    /\ inputData = [d \in DeviceObjects |-> NoInputFrame]
    /\ hdal = HomingReadings
    /\ novintFailure = "none"
    /\ lastReturn = Returned(1, "register", 2, TRUE)

IdleNovint ==
    /\ scaffold = StateData
    /\ apps = [a \in AppThreads |-> NewAppThread]
    /\ calls = MaxCalls
    /\ haptic = [pc |-> "idle", it |-> 1, frames |-> MaxFrames]
    /\ inputData = [d \in DeviceObjects |-> NoInputFrame]
    /\ hdal = {}
    /\ novintFailure = "none"
    /\ lastReturn = Returned(1, "none", 1, FALSE)

NextHaptic == RunHapticFrame \/ UpdateDeviceLock \/ UpdateDevice \/ EndHapticFrame

NextNovint ==
    \/ RegisterDevice \/ UnregisterDevice \/ UnregisterDestroy \/ UnregisterCreate
    \/ SetScaleLock \/ SetScaleFind \/ SetScaleWrite
    \/ NextHaptic

\* ------------------------------------------------------------------------
\* Component
\*
\* A failing SURGSIM_ASSERT throws out of the call before it has changed
\* anything; the caller may go on, as the unit tests do.
\* ------------------------------------------------------------------------
MaxComponents == 2       \* components 1..MaxComponents
MaxComponentCalls == 5   \* initialize and wakeUp calls made in one run

\* Component::Component
NewComponent ==
    [m_didInit |-> FALSE, m_didWakeUp |-> FALSE,
     m_isInitialized |-> FALSE, m_isAwake |-> FALSE]

\* What a call leaves and how it ended: "true", "false" or "assert".
CallOutcome(component, outcome) == [component |-> component, outcome |-> outcome]

AsOutcome(result) == IF result THEN "true" ELSE "false"

\* Component::initialize(runtime), doInitialize() returning doInitializeResult
ComponentInitialize(component, runtimeExpired, doInitializeResult) ==
    IF component.m_didInit \/ runtimeExpired
    THEN CallOutcome(component, "assert")
    ELSE CallOutcome([component EXCEPT !.m_didInit = TRUE,
                                       !.m_isInitialized = doInitializeResult],
                     AsOutcome(doInitializeResult))

ComponentWakeUpUnchecked(component, doWakeUpResult) ==
    CallOutcome([component EXCEPT !.m_didWakeUp = TRUE, !.m_isAwake = doWakeUpResult],
                AsOutcome(doWakeUpResult))

\* Component::wakeUp(), doWakeUp() returning doWakeUpResult
ComponentWakeUp(component, doWakeUpResult) ==
    IF component.m_didWakeUp \/ ~component.m_didInit \/ ~component.m_isInitialized
    THEN CallOutcome(component, "assert")
    ELSE CallOutcome([component EXCEPT !.m_didWakeUp = TRUE,
                                       !.m_isAwake = doWakeUpResult],
                     AsOutcome(doWakeUpResult))

\* The call made last: its number, its target, what it was, how it ended.
ComponentCall(count, c, op, outcome) ==
    [count |-> count, component |-> c, op |-> op, outcome |-> outcome]

Initialize ==
    \E c \in 1..MaxComponents, runtimeExpired \in BOOLEAN, result \in BOOLEAN :
        LET call == ComponentInitialize(components[c], runtimeExpired, result)
        IN /\ componentCall.count < MaxComponentCalls
           /\ components' = [components EXCEPT ![c] = call.component]
           /\ componentCall' =
                 ComponentCall(componentCall.count + 1, c, "initialize", call.outcome)
           /\ UNCHANGED exceptComponent

WakeUp ==
    \E c \in 1..MaxComponents, result \in BOOLEAN :
        LET call == ComponentWakeUp(components[c], result)
        IN /\ componentCall.count < MaxComponentCalls
           /\ components' = [components EXCEPT ![c] = call.component]
           /\ componentCall' =
                 ComponentCall(componentCall.count + 1, c, "wakeUp", call.outcome)
           /\ UNCHANGED exceptComponent

InitComponent ==
    /\ components = [c \in 1..MaxComponents |-> NewComponent]
    /\ componentCall = ComponentCall(0, 1, "none", "none")

IdleComponent ==
    /\ components = [c \in 1..MaxComponents |-> NewComponent]
    /\ componentCall = ComponentCall(MaxComponentCalls, 1, "none", "none")

NextComponent == Initialize \/ WakeUp

\* ------------------------------------------------------------------------
\* Accessible
\*
\* m_functors maps a property name to its functors; find(name) fails for a
\* name in no entry.  A functor is "nullptr" or "functor"; the setter
\* functor of a property stores the value in that property.
\* ------------------------------------------------------------------------
MaxProperties == 2   \* property names 1..MaxProperties

PropertyNames == 1..MaxProperties
Functors == {"nullptr", "functor"}

\* Accessible::Functors(): what m_functors[name] creates
NewFunctors == [found |-> TRUE, getter |-> "nullptr", setter |-> "nullptr"]
NotFound == [found |-> FALSE, getter |-> "nullptr", setter |-> "nullptr"]

\* m_functors[name], as an lvalue
Entry(functors, name) == IF functors[name].found THEN functors[name] ELSE NewFunctors

\* Accessible::setGetter; a null functor fails the assertion
SetGetterOf(functors, name, func) ==
    IF func = "nullptr" THEN functors
    ELSE [functors EXCEPT ![name] = [Entry(functors, name) EXCEPT !.getter = func]]

\* Accessible::setSetter
SetSetterOf(functors, name, func) ==
    IF func = "nullptr" THEN functors
    ELSE [functors EXCEPT ![name] = [Entry(functors, name) EXCEPT !.setter = func]]

\* Accessible::setAccessors; setGetter's assertion throws before setSetter
SetAccessorsOf(functors, name, getter, setter) ==
    IF getter = "nullptr" THEN functors
    ELSE SetSetterOf(SetGetterOf(functors, name, getter), name, setter)

\* Accessible::isWriteable
IsWriteable(functors, name) ==
    functors[name].found /\ functors[name].getter # "nullptr"

\* the test of Accessible::setValue
CanSetValue(functors, name) ==
    functors[name].found /\ functors[name].setter # "nullptr"

\* The call made last, and whether it went through without a failure.
AccessCall(op, name, ok) == [op |-> op, name |-> name, ok |-> ok]

SetGetter ==
    \E name \in PropertyNames, func \in Functors :
        /\ m_functors' = SetGetterOf(m_functors, name, func)
        /\ accessCall' = AccessCall("setGetter", name, func # "nullptr")
        /\ UNCHANGED properties
        /\ UNCHANGED exceptAccessible

SetSetter ==
    \E name \in PropertyNames, func \in Functors :
        /\ m_functors' = SetSetterOf(m_functors, name, func)
        /\ accessCall' = AccessCall("setSetter", name, func # "nullptr")
        /\ UNCHANGED properties
        /\ UNCHANGED exceptAccessible

SetAccessors ==
    \E name \in PropertyNames, getter \in Functors, setter \in Functors :
        /\ m_functors' = SetAccessorsOf(m_functors, name, getter, setter)
        /\ accessCall' = AccessCall("setAccessors", name,
                                    getter # "nullptr" /\ setter # "nullptr")
        /\ UNCHANGED properties
        /\ UNCHANGED exceptAccessible

\* Accessible::setValue(name, value)
SetValue ==
    \E name \in PropertyNames, value \in BOOLEAN :
        /\ properties' = IF CanSetValue(m_functors, name)
                         THEN [properties EXCEPT ![name] = value]
                         ELSE properties
        /\ accessCall' = AccessCall("setValue", name, CanSetValue(m_functors, name))
        /\ UNCHANGED m_functors
        /\ UNCHANGED exceptAccessible

InitAccessible ==
    /\ m_functors = [name \in PropertyNames |-> NotFound]
    /\ properties = [name \in PropertyNames |-> FALSE]
    /\ accessCall = AccessCall("none", 1, TRUE)

IdleAccessible == InitAccessible

NextAccessible == SetGetter \/ SetSetter \/ SetAccessors \/ SetValue

\* ------------------------------------------------------------------------
\* AddSphereFromInputBehavior
\*
\* The input component's data group holds "pose" and "button1".  The scene
\* is the sequence of the poses of the sphere elements added to it.
\* ------------------------------------------------------------------------
MaxSphereUpdates == 5   \* update calls in one run
MaxPoses == 2           \* poses the device reports

InputPoses == 1..MaxPoses

\* AddSphereFromInputBehavior::update(dt), reading pose and button1
AddSphereUpdate ==
    \E pose \in InputPoses, pressed \in BOOLEAN :
        LET add == pressed /\ ~previouslyPressed
        IN /\ sphereUpdates < MaxSphereUpdates
           /\ m_numElements' = IF add THEN m_numElements + 1 ELSE m_numElements
           /\ scene' = IF add THEN Append(scene, pose) ELSE scene
           /\ previouslyPressed' = ~pressed
           /\ button1' = pressed
           /\ sphereUpdates' = sphereUpdates + 1
           /\ UNCHANGED exceptSphere

InitSphere ==
    /\ previouslyPressed = FALSE
    /\ m_numElements = 0
    /\ scene = << >>
    /\ button1 = FALSE
    /\ sphereUpdates = 0

IdleSphere ==
    /\ previouslyPressed = FALSE
    /\ m_numElements = 0
    /\ scene = << >>
    /\ button1 = FALSE
    /\ sphereUpdates = MaxSphereUpdates

NextSphere == AddSphereUpdate

\* ------------------------------------------------------------------------
\* Specifications: one per part of the pipeline, the other parts at rest.
\* ------------------------------------------------------------------------
IdlePush ==
    /\ mlcpX = <<>> /\ CHt = <<>> /\ dofCorrection = <<>>
    /\ representations = <<>> /\ representationsMapping = <<>>
    /\ applied = <<>> /\ pushPc = "idle"

IdleContact ==
    /\ calc = "none"
    /\ pair = NewPair(SphereRep(Origin, 1), SphereRep(Origin, 1))
    /\ calcPc = "idle"

IdleFactory == InitFactory

IdleOde ==
    /\ odeSolver = NewSolver("none")
    /\ odeEquation = [M |-> <<1, 1, 1>>, gravity |-> Zero3, viscosity |-> 0]
    /\ odeDt = 1
    /\ odeCurrent = OdeState(Zero3, Zero3)
    /\ odeNew = OdeState(Zero3, Zero3)
    /\ odeSolves = MaxSteps
    /\ odeDrift = 0

IdleMassSpring ==
    /\ ms = [Init1D(<<Zero3, <<0, -2, 0>>>>, 2, 2, 0, 0) EXCEPT !.isActive = FALSE]
    /\ msDt = 1
    /\ msPc = "idle"
    /\ msSteps = 0
    /\ msDrift = 0

IdleBuild ==
    /\ mlcp = MlcpPhysicsProblemZero(0, 0)
    /\ buildInput = [dt |-> 1, actual |-> <<0, 0, 0>>, desired |-> <<0, 0, 0>>,
                     indexOfConstraint |-> 0]
    /\ buildPc = "idle"

NextPush == DoUpdate

IdleIntegration == IdleMassSpring /\ IdleOde

IdleThreads ==
    /\ barrier = NewBarrier(1)
    /\ threads = [t \in 1..1 |-> [NewThread("none") EXCEPT !.pc = "idle"]]
    /\ called = {}
    /\ returned = {}

PushInit == InitPush /\ IdleContact /\ IdleFactory /\ IdleBuild /\ IdleIntegration
    /\ IdleThreads
    /\ IdleNovint
    /\ IdleComponent
    /\ IdleAccessible
    /\ IdleSphere
ContactInit == InitContact /\ IdlePush /\ IdleFactory /\ IdleBuild /\ IdleIntegration
    /\ IdleThreads
    /\ IdleNovint
    /\ IdleComponent
    /\ IdleAccessible
    /\ IdleSphere
FactoryInit == InitFactory /\ IdlePush /\ IdleContact /\ IdleBuild /\ IdleIntegration
    /\ IdleThreads
    /\ IdleNovint
    /\ IdleComponent
    /\ IdleAccessible
    /\ IdleSphere
BuildInit == InitBuild /\ IdlePush /\ IdleContact /\ IdleFactory /\ IdleIntegration
    /\ IdleThreads
    /\ IdleNovint
    /\ IdleComponent
    /\ IdleAccessible
    /\ IdleSphere

\* Time integration: a run drives either the mass-spring representation or
\* an ODE solver.
IntegrationInit ==
    /\ \/ InitMassSpring /\ IdleOde
       \/ IdleMassSpring /\ InitOde
    /\ IdlePush /\ IdleContact /\ IdleFactory /\ IdleBuild /\ IdleThreads
    /\ IdleNovint
    /\ IdleComponent
    /\ IdleAccessible
    /\ IdleSphere

ThreadsInit ==
    InitThreads /\ IdlePush /\ IdleContact /\ IdleFactory /\ IdleBuild /\ IdleIntegration
    /\ IdleNovint
    /\ IdleComponent
    /\ IdleAccessible
    /\ IdleSphere

NextIntegration == NextMassSpring \/ NextOde

SpecPush == PushInit /\ [][NextPush]_vars

SpecContact == ContactInit /\ [][NextContact]_vars

SpecFactory == FactoryInit /\ [][NextFactory]_vars

SpecBuild == BuildInit /\ [][NextBuild]_vars

SpecIntegration == IntegrationInit /\ [][NextIntegration]_vars

\* A blocked wait that may return does return: m_cond.notify_all wakes it
\* and it takes m_mutex in the end.
SpecThreads == ThreadsInit /\ [][NextThreads]_vars /\ WF_vars(BarrierWaitReturn)

StopInit ==
    InitStop /\ IdlePush /\ IdleContact /\ IdleFactory /\ IdleBuild /\ IdleIntegration
    /\ IdleNovint
    /\ IdleComponent
    /\ IdleAccessible
    /\ IdleSphere

\* The steps of operator()() of a BasicThread that wait for nobody.
ThreadProgress ==
    \/ ThreadInit \/ ThreadStartup \/ ThreadRun \/ ThreadUpdate
    \/ ThreadLeaveLoop \/ ThreadExit
    \/ (BarrierWaitEnter /\ \E t \in Threads :
            threads[t].kind = "BasicThread" /\ threads[t].pc = "arrive"
            /\ threads'[t].pc # "arrive")

\* Every started thread is scheduled in the end, and so is a join whose
\* thread has exited.
SpecStop ==
    /\ StopInit /\ [][NextStop]_vars
    /\ WF_vars(BarrierWaitReturn) /\ WF_vars(ThreadProgress) /\ WF_vars(DoStopReturn)

NovintInit ==
    InitNovint /\ IdlePush /\ IdleContact /\ IdleFactory /\ IdleBuild /\ IdleIntegration
    /\ IdleThreads
    /\ IdleComponent
    /\ IdleAccessible
    /\ IdleSphere

HomingInit ==
    InitHoming /\ IdlePush /\ IdleContact /\ IdleFactory /\ IdleBuild /\ IdleIntegration
    /\ IdleThreads
    /\ IdleComponent
    /\ IdleAccessible
    /\ IdleSphere

ComponentInit ==
    InitComponent /\ IdlePush /\ IdleContact /\ IdleFactory /\ IdleBuild /\ IdleIntegration
    /\ IdleThreads /\ IdleNovint
    /\ IdleAccessible
    /\ IdleSphere

SpecComponent == ComponentInit /\ [][NextComponent]_vars

AccessibleInit ==
    InitAccessible /\ IdlePush /\ IdleContact /\ IdleFactory /\ IdleBuild /\ IdleIntegration
    /\ IdleThreads /\ IdleNovint /\ IdleComponent
    /\ IdleSphere

SpecAccessible == AccessibleInit /\ [][NextAccessible]_vars

SphereInit ==
    InitSphere /\ IdlePush /\ IdleContact /\ IdleFactory /\ IdleBuild /\ IdleIntegration
    /\ IdleThreads /\ IdleNovint /\ IdleComponent /\ IdleAccessible

SpecSphere == SphereInit /\ [][NextSphere]_vars

SpecNovint == NovintInit /\ [][NextNovint]_vars

SpecHoming == HomingInit /\ [][NextHaptic]_vars

\* ------------------------------------------------------------------------
\* Properties of PushResults
\* ------------------------------------------------------------------------
\* C1: PushResults::doUpdate called with an empty solution vector x returns
\* and changes nothing: no applyDofCorrection call is made, dofCorrection is
\* not written, and every representation keeps its free-motion DoF state.
C1_EmptySolutionIsNoOp ==
    [][(pushPc = "ready" /\ Len(mlcpX) = 0 /\ pushPc' # "ready")
         => /\ pushPc' = "done"
            /\ applied' = applied
            /\ dofCorrection' = dofCorrection
            /\ representations' = representations
            /\ UNCHANGED <<mlcpX, CHt, representationsMapping>>]_vars

C1_Witness ==
    /\ pushPc = "done" /\ Len(mlcpX) = 0
    /\ Len(representations) >= 2
    /\ dofCorrection[1] = 7
    /\ \E i \in 1..Len(representations) :
           representations[i].kind = "Rigid" /\ representations[i].dof[1] = 3

RowTimes(row, v, n) == SumTo([j \in 1..n |-> row[j] * v[j]], n)

\* C2: with a non-empty x, dofCorrection is CHt * x and applyDofCorrection is
\* called exactly once per representation, in list order, with the rows
\* [index, index + getNumDof()) of dofCorrection, index being the
\* representation's entry in the representations mapping.
C2_CorrectionPushedToEveryRepresentation ==
    /\ pushPc # "asserted"
    /\ (pushPc = "done" /\ Len(mlcpX) > 0) =>
        /\ Len(dofCorrection) = Len(CHt)
        /\ \A i \in 1..Len(CHt) :
               dofCorrection[i] = RowTimes(CHt[i], mlcpX, Len(mlcpX))
        /\ Len(applied) = Len(representations)
        /\ \A i \in 1..Len(representations) :
               LET r == representations[i]
                   index == representationsMapping[r.id]
               IN /\ applied[i].rep = r.id
                  /\ applied[i].index = index
                  /\ Len(applied[i].block) = r.numDof
                  /\ \A k \in 1..r.numDof :
                         applied[i].block[k] = dofCorrection[index + k]

C2_Witness ==
    /\ pushPc = "done" /\ Len(mlcpX) > 0
    /\ Len(representations) >= 2
    /\ representationsMapping[representations[1].id] > 0
    /\ applied[1].block # applied[2].block
    /\ Len(applied) = Len(representations)

\* ------------------------------------------------------------------------
\* Properties of the narrow phase
\* ------------------------------------------------------------------------
DeclaredOrder(c, p) ==
    /\ p.first.shapeType = GetShapeTypes(c)[1]
    /\ p.second.shapeType = GetShapeTypes(c)[2]

\* C3: whatever the order of the pair handed to calculateContact, the
\* type-specific routine sees the calculator's declared first shape type
\* first and its declared second shape type second, and a pair already in
\* the declared order is not swapped.
C3_PairInDeclaredOrder ==
    [][(calcPc = "ready" /\ calcPc' = "done")
         => /\ DeclaredOrder(calc, pair')
            /\ IF DeclaredOrder(calc, pair)
               THEN /\ pair'.first = pair.first
                    /\ pair'.second = pair.second
                    /\ pair'.isSwapped = pair.isSwapped
               ELSE /\ pair'.first = pair.second
                    /\ pair'.second = pair.first]_vars

C3_Witness ==
    /\ calcPc = "done" /\ calc = "BoxSphere"
    /\ pair.isSwapped
    /\ pair.first.shapeType = "BOX" /\ pair.second.shapeType = "SPHERE"
    /\ Len(pair.contacts) = 1

\* C4: SphereSphereDcdContact adds a contact exactly when the centre
\* distance is below the sum of the radii; the contact is the only one, its
\* depth is (r1 + r2) - distance, its normal the unit vector from the second
\* centre towards the first, its penetration points firstCentre - normal*r1
\* and secondCentre + normal*r2; otherwise the contact list is unchanged.
C4_SphereSphereContact ==
    (calc = "SphereSphere" /\ calcPc = "done") =>
        LET c1 == pair.first.pose.translation
            c2 == pair.second.pose.translation
            r1 == pair.first.shape.radius
            r2 == pair.second.shape.radius
            d2 == SquaredNorm(Sub(c1, c2))
        IN IF d2 < (r1 + r2) * (r1 + r2)
           THEN /\ Len(pair.contacts) = 1
                /\ LET k == pair.contacts[1]
                       distance == r1 + r2 - k.depth
                   IN /\ distance >= 0 /\ distance * distance = d2
                      /\ QIsUnit(k.normal)
                      /\ Scale(k.normal.num, distance) = Scale(Sub(c1, c2), k.normal.den)
                      /\ k.penetrationPoints[1].hasValue
                      /\ k.penetrationPoints[2].hasValue
                      /\ QEq(k.penetrationPoints[1].value,
                             Q(Sub(Scale(c1, k.normal.den), Scale(k.normal.num, r1)),
                               k.normal.den))
                      /\ QEq(k.penetrationPoints[2].value,
                             Q(Add3(Scale(c2, k.normal.den), Scale(k.normal.num, r2)),
                               k.normal.den))
           ELSE pair.contacts = <<>>

\* C5: every contact added by the sphere-sphere and box-sphere calculators
\* has a normal of length exactly 1 with no NaN component, the degenerate
\* inputs (coincident sphere centres, sphere centre in or on the box)
\* included.
C5_NormalIsUnit ==
    (calc \in {"SphereSphere", "BoxSphere"}) =>
        \A i \in 1..Len(pair.contacts) : QIsUnit(pair.contacts[i].normal)

\* Do the box, moved by depth * normal, and the sphere still overlap?  All
\* lengths are multiplied by the denominator of the normal.
OverlapAfterPush(box, sph, depth, normal) ==
    LET den == normal.den
        moved == Sub(Scale(Sub(sph.pose.translation, box.pose.translation), den),
                     Scale(normal.num, depth))
        local == MatVec3(Transpose(box.pose.linear), moved)
        half == Scale(BoxHalfSize(box.shape.size), den)
        closest == ClosestPoint(half, local)
    IN SquaredNorm(Sub(closest, local)) <
           (sph.shape.radius * den) * (sph.shape.radius * den)

\* C6: for every contact added by BoxSphereDcdContact, sphere centre outside
\* or inside the box, translating the box by depth * normal leaves the box
\* and the sphere no longer overlapping.
C6_BoxNormalSeparates ==
    (calc = "BoxSphere" /\ calcPc = "done") =>
        \A i \in 1..Len(pair.contacts) :
            LET k == pair.contacts[i]
            IN ~IsNaN(k.normal) /\ ~OverlapAfterPush(pair.first, pair.second, k.depth, k.normal)

\* The sphere centre in box coordinates, the face distances and whether the
\* centre is in the box, for a box-sphere pair in the declared order.
SphereInBoxCoordinates(p) == PoseInverseApply(p.first.pose, p.second.pose.translation)
FaceDistances(p) ==
    [k \in 1..3 |-> BoxHalfSize(p.first.shape.size)[k] - Abs(SphereInBoxCoordinates(p)[k])]
CentreInBox(p) == \A k \in 1..3 : FaceDistances(p)[k] >= 0

\* C7: with the sphere centre inside the box exactly one contact is added;
\* its normal lies along the axis with the least (half-extent - |local
\* coordinate|), the first such axis in the order x, y, z, and its depth is
\* that face distance plus the radius (half-extent plus radius when the
\* centre is at the box centre).
C7_InsideBoxNearestFace ==
    (calc = "BoxSphere" /\ calcPc = "done" /\ CentreInBox(pair)) =>
        /\ Len(pair.contacts) = 1
        /\ \E axis \in 1..3 :
            /\ \A k \in 1..3 : FaceDistances(pair)[axis] <= FaceDistances(pair)[k]
            /\ \A k \in 1..(axis - 1) : FaceDistances(pair)[axis] < FaceDistances(pair)[k]
            /\ pair.contacts[1].depth = FaceDistances(pair)[axis] + pair.second.shape.radius
            /\ \E sign \in {-1, 1} :
                   pair.contacts[1].normal =
                       Q(MatVec3(pair.first.pose.linear,
                                 [k \in 1..3 |-> IF k = axis THEN sign ELSE 0]), 1)
            /\ SphereInBoxCoordinates(pair) = Origin =>
                   pair.contacts[1].depth =
                       BoxHalfSize(pair.first.shape.size)[axis] + pair.second.shape.radius

C7_Witness ==
    /\ calc = "BoxSphere" /\ calcPc = "done"
    /\ SphereInBoxCoordinates(pair) = <<0, 1, -1>>
    /\ pair.first.shape.size = <<2, 4, 6>>
    /\ pair.first.pose.linear = RotZ90
    /\ Len(pair.contacts) = 1
    /\ pair.contacts[1].depth = 1 + pair.second.shape.radius

IsTestCase(p, case) ==
    /\ p.first.shape.radius = case.radius
    /\ p.first.pose.translation = case.sphereTrans
    /\ p.second.pose = Pose(case.planeTrans, case.planeQuat)

MeetsExpectation(p, case) ==
    /\ Len(p.contacts) >= 1
    /\ p.contacts[1].depth = case.expectedDepth
    /\ QEq(p.contacts[1].normal, Q(case.expectedNorm, 1))

C10_AddThenGet ==
    [][LET call == lastCall'
       IN /\ call.op = "addImplementation" =>
               /\ m_implementations'[GetRepresentationType(call.implementation)]
                                    [GetMlcpConstraintType(call.implementation)]
                      = call.implementation
               /\ \A rt \in RepresentationTypes, ct \in MlcpConstraintTypes :
                      (rt # GetRepresentationType(call.implementation)
                          \/ ct # GetMlcpConstraintType(call.implementation))
                      => m_implementations'[rt][ct] = m_implementations[rt][ct]
          /\ (call.op = "getImplementation"
                /\ call.representationType \in RepresentationTypes
                /\ call.constraintType \in MlcpConstraintTypes) =>
               /\ ~call.threw
               /\ m_implementations' = m_implementations
               /\ call.implementation =
                      m_implementations[call.representationType][call.constraintType]
               /\ call.warned = (call.implementation = Null)
               /\ (call.implementation # Null =>
                      /\ GetRepresentationType(call.implementation) = call.representationType
                      /\ GetMlcpConstraintType(call.implementation) = call.constraintType)]_vars

C10_Witness ==
    /\ lastCall.op = "getImplementation"
    /\ lastCall.representationType = "RIGID"
    /\ lastCall.constraintType = "MLCP_BILATERAL_3D_CONSTRAINT"
    /\ lastCall.implementation = Instance("RigidRepresentationBilateral3D", 1)
    /\ m_implementations["RIGID"]["MLCP_UNILATERAL_3D_FRICTIONLESS_CONSTRAINT"]
           = Instance("RigidRepresentationContact", 1)
    /\ m_implementations["FEM1D"]["MLCP_BILATERAL_3D_CONSTRAINT"] = Null

\* ------------------------------------------------------------------------
\* Properties of RigidRepresentationBilateral3D::build
\* ------------------------------------------------------------------------
\* The part of H the constraint owns: its three rows, the first cols columns.
ConstraintRows(H, indexOfConstraint, cols) ==
    [i \in 1..3 |-> [j \in 1..cols |-> H[i + indexOfConstraint][j]]]

\* Every entry of H outside the constraint's three rows and outside the
\* first cols columns is zero.
ZeroElsewhere(H, indexOfConstraint, cols) ==
    \A i \in 1..Len(H) : \A j \in 1..Len(H[i]) :
        (i - indexOfConstraint \notin 1..3 \/ j > cols) => H[i][j] = 0

IsBoundaryNode(r, n) ==
    \E b \in 1..Len(r.m_boundaryConditions) : r.m_boundaryConditions[b] + 1 = n

\* An update call on an active mass-spring representation, a solve call.
IsIntegrationStep == msPc = "before" /\ msPc' = "updated" /\ ms.isActive
IsSolveStep == odeSolves' = odeSolves + 1

\* C12: a modified-explicit Euler step sets v(t+dt) = v(t) + dt*a(t) and then
\* x(t+dt) = x(t) + dt*v(t+dt); an explicit Euler step sets
\* x(t+dt) = x(t) + dt*v(t); with zero force both leave the velocity as it
\* is and advance the position by dt*v, on every step of a run.  (a(t) is
\* the acceleration of a node or DoF that is free to move.)
C12_EulerSteps ==
    [][/\ IsIntegrationStep =>
            LET a == ForceAccumulation(ms)
                modified == ms.m_integrationScheme
                               = "INTEGRATIONSCHEME_MODIFIED_EXPLICIT_EULER"
            IN /\ \A n \in 1..NumMasses(ms) :
                    /\ ~IsBoundaryNode(ms, n) =>
                          ms'.m_v[n] = Add3(ms.m_v[n], Scale(a[n], msDt))
                    /\ modified =>
                          ms'.m_x[n] = Add3(ms.m_x[n], Scale(ms'.m_v[n], msDt))
                    /\ ~modified =>
                          ms'.m_x[n] = Add3(ms.m_x[n], Scale(ms.m_v[n], msDt))
               /\ IsZeroField(a) =>
                    /\ ms'.m_v = ms.m_v
                    /\ ms'.m_x = AddScaled(ms.m_x, ms.m_v, msDt)
       /\ (IsSolveStep /\ odeSolver.class = "ModifiedExplicitEuler") =>
            LET a == odeNew'.accelerations
                deltaV == Sub(odeNew'.velocities, odeCurrent'.velocities)
            IN /\ Scale(deltaV, a.den) = Scale(a.num, odeDt)
               /\ \A i \in 1..3 :
                    a.num[i] * odeEquation.M[i]
                       = ComputeF(odeEquation, odeCurrent')[i] * a.den
               /\ odeNew'.positions
                    = Add3(odeCurrent'.positions, Scale(odeNew'.velocities, odeDt))
               /\ ComputeF(odeEquation, odeCurrent') = Zero3 =>
                    /\ odeNew'.velocities = odeCurrent'.velocities
                    /\ odeNew'.positions
                         = Add3(odeCurrent'.positions,
                                Scale(odeCurrent'.velocities, odeDt))
      ]_vars

\* Ten steps in a row of a chain that moves under no force, in the modified
\* scheme: it has left its initial position.
C12_Witness ==
    /\ msDrift >= 10
    /\ ms.m_integrationScheme = "INTEGRATIONSCHEME_MODIFIED_EXPLICIT_EULER"
    /\ ms.m_boundaryConditions = << >>
    /\ ms.m_v[1] # Zero3
    /\ ms.m_x[1] = Add3(ms.m_initialState.position[1],
                        Scale(ms.m_v[1], msSteps * msDt))

\* C13: whatever update steps (either scheme) and applyDofCorrection calls
\* have been made, and whatever gravity, damping and spring forces act,
\* every boundary-condition node of a mass-spring representation has the
\* position and the velocity it was initialised with.
C13_BoundaryNodesStay ==
    \A n \in 1..NumMasses(ms) :
        IsBoundaryNode(ms, n) =>
            /\ ms.m_x[n] = ms.m_initialState.position[n]
            /\ ms.m_v[n] = ms.m_initialState.velocity[n]

\* Two steps and a correction on, the first node is held while gravity and
\* a stretched spring pull on it, and the free end of the chain has moved.
C13_Witness ==
    /\ msSteps >= 2
    /\ msPc = "corrected"
    /\ ms.isActive /\ ms.isGravityEnabled /\ ms.stiffness > 0
    /\ ms.m_boundaryConditions = <<0>>
    /\ ForceAccumulation(ms)[1] \notin {Zero3, Gravity}
    /\ ms.m_x[NumMasses(ms)] # ms.m_initialState.position[NumMasses(ms)]
    /\ ms.m_x[1] = ms.m_initialState.position[1]

\* C14: after every integration step of a mass-spring representation, in
\* the explicit and in the modified-explicit scheme, the force
\* (acceleration) and the velocity of every boundary-condition node are zero.
C14_BoundaryForceAndVelocityZero ==
    [][IsIntegrationStep =>
          \A n \in 1..NumMasses(ms) :
              IsBoundaryNode(ms, n) => (ms'.m_f[n] = Zero3 /\ ms'.m_v[n] = Zero3)]_vars

\* The four handlers, by what the caller's position shows.
IsHandlerStep == msPc' # msPc

\* C15: on a representation that is not active, beforeUpdate, update,
\* afterUpdate and applyDofCorrection leave the positions, the velocities,
\* the previous-position snapshot and the final mesh state as they are, for
\* any dt and any correction block.
C15_InactiveHandlersChangeNothing ==
    [][(IsHandlerStep /\ ~ms.isActive) =>
          /\ ms'.m_x = ms.m_x
          /\ ms'.m_v = ms.m_v
          /\ ms'.m_xPrevious = ms.m_xPrevious
          /\ ms'.m_finalState = ms.m_finalState]_vars

\* A representation switched off after its first update, when its snapshot
\* and its mesh state were both behind m_x, has since been through
\* afterUpdate, beforeUpdate, update and applyDofCorrection.
C15_Witness ==
    /\ ~ms.isActive
    /\ msSteps = 1
    /\ msPc = "corrected"
    /\ ms.isGravityEnabled
    /\ ms.m_x # ms.m_xPrevious
    /\ ms.m_finalState.position # ms.m_x
    /\ ms.m_finalState.position = ms.m_xPrevious

\* What ModifiedExplicitEuler::solve writes for the state and dt of the last
\* solve call.
ModifiedReference ==
    ModifiedExplicitEulerSolve(odeSolver, odeEquation, odeDt, odeCurrent', odeNew).newState

\* C16: with the same M and dt on every call, every
\* LinearModifiedExplicitEuler::solve call, the first one and each one that
\* reuses the cached compliance, writes the positions, velocities and
\* accelerations that ModifiedExplicitEuler::solve writes for the same
\* current state.
C16_LinearSolveMatchesModified ==
    [][(IsSolveStep /\ odeSolver.class = "LinearModifiedExplicitEuler") =>
          /\ odeNew'.positions = ModifiedReference.positions
          /\ odeNew'.velocities = ModifiedReference.velocities
          /\ odeNew'.accelerations = ModifiedReference.accelerations]_vars

\* ------------------------------------------------------------------------
\* Properties of Barrier and BasicThread
\* ------------------------------------------------------------------------
RoundIds == 0..(MaxRounds + 1)
CallsOf(round) == { c \in called : c.round = round }
ReturnsOf(round) == { r \in returned : r.round = round }
RoundIsFull(round) == Cardinality(CallsOf(round)) = barrier.m_threshold
AllReturned(round) ==
    \A c \in CallsOf(round) : \E r \in ReturnsOf(round) : r.thread = c.thread

\* C18: no Barrier::wait call returns before as many threads as the
\* constructor was given have called wait in its round; and once that many
\* have called, every one of them returns.
C18_BarrierReleasesWhenFull ==
    /\ [](\A r \in returned : RoundIsFull(r.round))
    /\ \A round \in RoundIds : RoundIsFull(round) ~> AllReturned(round)

\* Every thread of a barrier for several has come through two rounds, one
\* of them after being blocked.
C18_Witness ==
    /\ barrier.m_threshold = MaxThreads
    /\ barrier.m_generation = 2
    /\ Cardinality(ReturnsOf(0)) = MaxThreads
    /\ Cardinality(ReturnsOf(1)) = MaxThreads

\* C19: all wait calls of one round return the same value, the AND of the
\* success arguments of that round's callers; a later round of the same
\* barrier returns the AND of its own arguments only.
C19_RoundResultIsAnd ==
    \A r \in returned :
        r.value = (\A c \in CallsOf(r.round) : c.value)

\* A round that failed followed by a round, on the same barrier, in which
\* every caller passed true and was told true.
C19_Witness ==
    /\ barrier.m_threshold >= 2
    /\ Cardinality(ReturnsOf(0)) = barrier.m_threshold
    /\ Cardinality(ReturnsOf(1)) = barrier.m_threshold
    /\ \A r \in ReturnsOf(0) : ~r.value
    /\ \E c \in CallsOf(0) : c.value
    /\ \A r \in ReturnsOf(1) : r.value

\* What a participant has done: a BasicThread has run init() (startup()), a
\* plain caller has made its first (second) wait call.
FinishedInit(thread) ==
    IF thread.kind = "BasicThread" THEN thread.didInitialize ELSE thread.waits >= 1
FinishedStartup(thread) ==
    IF thread.kind = "BasicThread" THEN thread.didStartUp ELSE thread.waits >= 2

\* C20: with a shared startup barrier no thread's startup() begins before
\* every participant has finished init(), and no thread is running (no
\* update() is called, isRunning() is false) before every participant has
\* finished startup().
C20_StartupInStep ==
    \A t \in Threads :
        /\ threads[t].didStartUp => \A u \in Threads : FinishedInit(threads[u])
        /\ (threads[t].m_isRunning \/ threads[t].updates > 0) =>
              \A u \in Threads : FinishedStartup(threads[u])

\* The thread and the caller of the unit test, both through both rounds,
\* the thread in its run loop.
C20_Witness ==
    /\ barrier.m_threshold = 2
    /\ threads[1].kind = "BasicThread" /\ threads[2].kind = "caller"
    /\ threads[1].m_isRunning /\ threads[1].updates = 1
    /\ threads[2].waits = 2

StartupCalls == CallsOf(0) \cup CallsOf(1)

\* What a participant has reported: init() or startup() of a BasicThread
\* returned false, a plain caller passed false to one of its two waits.
ReportedFailure(t) ==
    IF threads[t].kind = "BasicThread"
    THEN \/ threads[t].didInitialize /\ ~threads[t].m_isInitialised
         \/ threads[t].didStartUp /\ ~threads[t].success
    ELSE \E c \in StartupCalls : c.thread = t /\ ~c.value

\* C21: a thread started with a startup barrier enters its update loop only
\* if init() and startup() of every participant returned true; when a
\* participant reports failure at either barrier no participant ever calls
\* update().
C21_RunOnlyIfAllSucceeded ==
    /\ \A t \in Threads :
          threads[t].phase = "run" =>
              \A u \in Threads : FinishedStartup(threads[u]) /\ ~ReportedFailure(u)
    /\ (\E u \in Threads : ReportedFailure(u)) =>
          \A t \in Threads : threads[t].updates = 0 /\ ~threads[t].m_isRunning

\* Two threads through init; startup of thread 2 fails, thread 1 reports
\* its own success, is told of the failure, and both leave without an
\* update.
C21_Witness ==
    /\ barrier.m_threshold = 2
    /\ threads[1].kind = "BasicThread" /\ threads[2].kind = "BasicThread"
    /\ WaitRecord(1, 2, FALSE) \in called
    /\ WaitRecord(1, 1, TRUE) \in called
    /\ WaitRecord(1, 1, FALSE) \in returned
    /\ threads[1].pc = "stopped" /\ threads[2].pc = "stopped"

\* No doStop call is waiting in its join.
NoStopPending == \A t \in Threads : threads[t].stopper # "joining"

\* C22: a stop request with waitForExit may come at any moment after the
\* start, also before the thread has reached its loop; it never interrupts
\* an update() in progress and takes effect between two update() calls; and
\* when it returns the thread has exited, isRunning() is false and update()
\* is not called again.
C22_StopBetweenUpdates ==
    /\ [](\A t \in Threads :
            threads[t].stopper = "returned" =>
                threads[t].pc = "stopped" /\ ~threads[t].m_isRunning)
    /\ [][\A t \in Threads :
            /\ (threads[t].pc = "updating" /\ threads'[t].pc # "updating") =>
                  /\ threads'[t].updates = threads[t].updates + 1
                  /\ threads'[t].pc = "ready"
            /\ (threads[t].m_stopExecution /\ threads[t].pc # "updating") =>
                  threads'[t].pc # "updating"
            /\ threads[t].stopper = "returned" =>
                  /\ threads'[t].updates = threads[t].updates
                  /\ threads'[t].pc = "stopped" /\ ~threads'[t].m_isRunning]_vars
    /\ ~NoStopPending ~> NoStopPending

\* Thread 1 was asked to stop and has left
\* without an update(); the request to thread 2 came in the middle of its
\* second update() and is waiting for it.
C22_Witness ==
    /\ barrier.m_threshold = 2
    /\ threads[1].stopper = "returned" /\ threads[1].updates = 0
    /\ threads[1].didStartUp
    /\ threads[2].stopper = "joining" /\ threads[2].m_stopExecution
    /\ threads[2].pc = "updating" /\ threads[2].updates = 1

\* ------------------------------------------------------------------------
\* Properties of the NovintScaffold
\* ------------------------------------------------------------------------
\* Application thread a is at the assignment of a scale factor.
IsWriting(a) == apps[a].pc = "writing"

\* The callback is inside updateDevice for the device at position i.
IsReading(i) == haptic.pc = "updating" /\ haptic.it = i

\* C23: a write of a device's position or orientation scale factor by
\* setPositionScale / setOrientationScale never overlaps with the haptic
\* callback's reads of those factors in updateDevice; both run holding that
\* device's parametersMutex.
C23_ScaleWriteExcludesCallbackRead ==
    /\ \A a \in AppThreads :
          IsWriting(a) =>
              \E i \in Matching(scaffold.activeDeviceList, apps[a].device) :
                  /\ scaffold.activeDeviceList[i].parametersMutex = a
                  /\ ~IsReading(i)
    /\ haptic.pc = "updating" =>
          scaffold.activeDeviceList[haptic.it].parametersMutex = HapticThread

\* A scale factor written earlier has been read by the callback into a
\* frame, and an application thread is writing one again while the callback
\* exists.
C23_Witness ==
    /\ scaffold.callback
    /\ inputData[1].published /\ inputData[1].translation = 2
    /\ \E a \in AppThreads : IsWriting(a) /\ apps[a].device = 1

\* A registerDevice call returns in this step.
IsRegisterStep ==
    calls' = calls + 1 /\ apps' = apps /\ lastReturn'.op = "register"

\* The device's name is the name of a device on the list.
NameIsRegistered(device) ==
    \E i \in 1..Len(scaffold.activeDeviceList) :
        GetName(scaffold.activeDeviceList[i].deviceObject) = GetName(device)

\* C25: registering a device whose name is the name of a registered device
\* returns false and leaves the active devices and the haptic loop as they
\* were.
C25_SameNameIsRejected ==
    [][(IsRegisterStep /\ NameIsRegistered(lastReturn'.device)) =>
          /\ ~lastReturn'.status
          /\ novintFailure' = "none"
          /\ scaffold'.activeDeviceList = scaffold.activeDeviceList
          /\ scaffold'.callback = scaffold.callback]_vars

\* Device 3 was refused for carrying the name of device 1, and the callback
\* that started afterwards is updating device 1.
C25_Witness ==
    /\ lastReturn = Returned(lastReturn.thread, "register", 3, FALSE)
    /\ scaffold.callback
    /\ haptic.pc = "updating"
    /\ scaffold.activeDeviceList[haptic.it].deviceObject = 1

\* C27: in every interleaving of registerDevice and unregisterDevice calls
\* from different threads the assertions of createHapticLoop and
\* destroyHapticLoop hold, and once all calls have returned the callback
\* exists exactly when the active device list is not empty.
C27_HapticLoopFollowsDeviceList ==
    /\ novintFailure \notin {"createHapticLoop", "destroyHapticLoop"}
    /\ (\A a \in AppThreads : apps[a].pc = "idle") =>
          (scaffold.callback <=> Len(scaffold.activeDeviceList) > 0)

\* C28: in every input frame a device publishes, isHomed implies
\* isPositionHomed and isOrientationHomed, for 3-DoF and 7-DoF devices and
\* also when homing is lost after it was achieved.
C28_HomedImpliesBothHomed ==
    \A device \in DeviceObjects :
        (inputData[device].published /\ inputData[device].isHomed) =>
            inputData[device].isPositionHomed /\ inputData[device].isOrientationHomed

\* ------------------------------------------------------------------------
\* Properties of Component
\* ------------------------------------------------------------------------
\* Uninitialized, Initialized, Awake
LifecyclePhase(component) ==
    IF component.m_isAwake THEN 2 ELSE IF component.m_isInitialized THEN 1 ELSE 0

\* This step is a call of op on component c.
IsComponentCall(c, op) ==
    /\ componentCall'.count = componentCall.count + 1
    /\ componentCall'.component = c /\ componentCall'.op = op

\* C24: a Component moves only forward through Uninitialized, Initialized,
\* Awake; initialize runs at most once and wakeUp at most once, a second call
\* of either being a failed assertion; wakeUp is accepted only after
\* initialize has run and returned true; so isAwake() implies
\* isInitialized().
C24_ComponentLifecycle ==
    /\ [](\A c \in 1..MaxComponents :
            /\ components[c].m_isAwake => components[c].m_isInitialized
            /\ components[c].m_didWakeUp =>
                  components[c].m_didInit /\ components[c].m_isInitialized)
    /\ [][\A c \in 1..MaxComponents :
            /\ LifecyclePhase(components'[c]) >= LifecyclePhase(components[c])
            /\ (IsComponentCall(c, "initialize") /\ components[c].m_didInit) =>
                  componentCall'.outcome = "assert" /\ components'[c] = components[c]
            /\ (/\ IsComponentCall(c, "wakeUp")
                /\ components[c].m_didWakeUp \/ ~components[c].m_isInitialized) =>
                  componentCall'.outcome = "assert" /\ components'[c] = components[c]]_vars

\* Component 1 is awake and a second wakeUp has just been refused;
\* component 2, whose initialization failed, was never woken.
C24_Witness ==
    /\ components[1].m_isAwake
    /\ componentCall.component = 1 /\ componentCall.op = "wakeUp"
    /\ componentCall.outcome = "assert"
    /\ components[2].m_didInit /\ ~components[2].m_isInitialized

\* ------------------------------------------------------------------------
\* Properties of a tick of the mass-spring representation
\* ------------------------------------------------------------------------
IsBeforeUpdateStep == msPc = "ready" /\ msPc' = "before"
IsAfterUpdateStep == msPc \in {"updated", "corrected"} /\ msPc' = "ready"

\* C26: in each tick of an active MassSpringRepresentation beforeUpdate
\* copies the current positions into the previous-position snapshot, update
\* integrates without touching that snapshot or the final mesh state, and
\* afterUpdate copies the current position and velocity of every node into
\* the final mesh state; the final mesh state changes in afterUpdate only.
C26_TickPhases ==
    [][/\ (IsBeforeUpdateStep /\ ms.isActive) =>
             ms'.m_xPrevious = ms.m_x /\ ms'.m_x = ms.m_x
       /\ IsIntegrationStep =>
             /\ ms'.m_xPrevious = ms.m_xPrevious
             /\ ms'.m_finalState = ms.m_finalState
       /\ (IsAfterUpdateStep /\ ms.isActive) =>
             /\ ms'.m_x = ms.m_x /\ ms'.m_v = ms.m_v
             /\ \A n \in 1..NumMasses(ms) :
                   /\ ms'.m_finalState.position[n] = ms.m_x[n]
                   /\ ms'.m_finalState.velocity[n] = ms.m_v[n]
       /\ ms'.m_finalState # ms.m_finalState => IsAfterUpdateStep]_vars

\* The second tick is over: the mesh shows the positions and the velocities
\* the second update wrote, and the snapshot those of the first.
C26_Witness ==
    /\ msPc = "ready" /\ msSteps = 2 /\ ms.isActive
    /\ ms.m_finalState.position = ms.m_x /\ ms.m_finalState.velocity = ms.m_v
    /\ ms.m_xPrevious # ms.m_x
    /\ ms.m_xPrevious # ms.m_initialState.position
    /\ ms.m_v # ms.m_initialState.velocity

\* ------------------------------------------------------------------------
\* Properties of Accessible
\* ------------------------------------------------------------------------
\* C29: after any sequence of setGetter, setSetter and setAccessors calls
\* isWriteable(name) is true exactly when a setter has been registered for
\* name, so setValue(name, v) succeeds when isWriteable(name) is true and
\* fails when it is false.
C29_WriteableIffSetter ==
    /\ \A name \in PropertyNames :
          IsWriteable(m_functors, name) <=>
             (m_functors[name].found /\ m_functors[name].setter = "functor")
    /\ accessCall.op = "setValue" =>
          (accessCall.ok <=> IsWriteable(m_functors, accessCall.name))

\* ------------------------------------------------------------------------
\* Properties of AddSphereFromInputBehavior
\* ------------------------------------------------------------------------
\* C30: over any sequence of update calls a sphere element is added to the
\* scene exactly once per press of button1, on the update where button1
\* goes from released to pressed; none is added on an update where the
\* button stays pressed or is released.
C30_OneSpherePerPress ==
    [][IF button1' /\ ~button1
       THEN Len(scene') = Len(scene) + 1
       ELSE scene' = scene]_vars
====
